---- MODULE Spec2Model ----
(***************************************************************************)
(* Model of the property-guest-assistant ingestion code:                   *)
(*   - ChunkingService (chunking_service.py): text splitting, overlap,     *)
(*     title prefix, chunk numbering;                                      *)
(*   - the ingestion steps (start, discovery, parse, chunk, embed, error)  *)
(*     with the ingestion_jobs state and the LanceDB table.                *)
(* A text is a sequence of one-character strings.                          *)
(***************************************************************************)
EXTENDS Integers, Sequences, FiniteSets, TLC

\* ------------------------------------------------------------------------
\* Bounds of the explored inputs
\* ------------------------------------------------------------------------
MaxBlocks == 3
WordLen == 60
LongLen == 130

\* ------------------------------------------------------------------------
\* Program constants (chunking_service.py, class ChunkingService)
\* ------------------------------------------------------------------------
MIN_CHUNK_SIZE == 100
MAX_CHUNK_SIZE == 2000
TITLE_WINDOW == 100

\* ------------------------------------------------------------------------
\* Python string primitives used by the chunker
\* ------------------------------------------------------------------------
Min2(a, b) == IF a <= b THEN a ELSE b
Max2(a, b) == IF a >= b THEN a ELSE b

\* floor division (Python //), also for negative numerators
FloorDiv(a, b) == a \div b

Rep(c, n) == [i \in 1..n |-> c]

\* whitespace as seen by str.strip(), str.split() and the regex class \s
IsSpace(c) == c \in {" ", "\n", "\t"}

RECURSIVE SkipSpaceFwd(_, _)
SkipSpaceFwd(s, i) ==
    IF i <= Len(s) /\ IsSpace(s[i]) THEN SkipSpaceFwd(s, i + 1) ELSE i

RECURSIVE SkipSpaceBwd(_, _)
SkipSpaceBwd(s, i) ==
    IF i >= 1 /\ IsSpace(s[i]) THEN SkipSpaceBwd(s, i - 1) ELSE i

\* str.strip()
Strip(s) ==
    LET a == SkipSpaceFwd(s, 1)
        b == SkipSpaceBwd(s, Len(s))
    IN  IF a > b THEN <<>> ELSE SubSeq(s, a, b)

\* the elements of a finite set of integers in increasing order
SortedSeq(S) ==
    [k \in 1..Cardinality(S) |->
        CHOOSE x \in S : Cardinality({y \in S : y < x}) = k - 1]

\* last index of the run of newlines that starts at i
RECURSIVE NewlineRunEnd(_, _)
NewlineRunEnd(s, i) ==
    IF i < Len(s) /\ s[i + 1] = "\n" THEN NewlineRunEnd(s, i + 1) ELSE i

\* last index of the run of whitespace that starts at i
RECURSIVE SpaceRunEnd(_, _)
SpaceRunEnd(s, i) ==
    IF i < Len(s) /\ IsSpace(s[i + 1]) THEN SpaceRunEnd(s, i + 1) ELSE i

\* re.split: the pieces of s between the separators [starts[k], ends[k]]
Pieces(s, starts, ends) ==
    [k \in 1..(Len(starts) + 1) |->
        SubSeq(s,
               IF k = 1 THEN 1 ELSE ends[k - 1] + 1,
               IF k > Len(starts) THEN Len(s) ELSE starts[k] - 1)]

\* re.split(r'\n\n+', text): separators are the maximal runs of >= 2 newlines
SplitParagraphs(text) ==
    LET starts == SortedSeq({i \in 1..(Len(text) - 1) :
                        /\ text[i] = "\n"
                        /\ text[i + 1] = "\n"
                        /\ (i = 1 \/ text[i - 1] # "\n")})
        ends == [k \in 1..Len(starts) |-> NewlineRunEnd(text, starts[k])]
    IN  Pieces(text, starts, ends)

\* re.split(r'(?<=[.!?])\s+', paragraph): separators are the whitespace runs
\* that directly follow a sentence-ending character
SplitSentences(paragraph) ==
    LET starts == SortedSeq({i \in 2..Len(paragraph) :
                        /\ IsSpace(paragraph[i])
                        /\ paragraph[i - 1] \in {".", "!", "?"}})
        ends == [k \in 1..Len(starts) |-> SpaceRunEnd(paragraph, starts[k])]
    IN  Pieces(paragraph, starts, ends)

\* str.split(): the maximal whitespace-free tokens
SplitWords(text) ==
    LET starts == SortedSeq({i \in 1..Len(text) :
                        /\ IsSpace(text[i])
                        /\ (i = 1 \/ ~IsSpace(text[i - 1]))})
        ends == [k \in 1..Len(starts) |-> SpaceRunEnd(text, starts[k])]
    IN  SelectSeq(Pieces(text, starts, ends), LAMBDA w : w # <<>>)

\* str.find(c): 0-based index of the first occurrence, -1 when absent
Find(s, c) ==
    LET idx == {i \in 1..Len(s) : s[i] = c}
    IN  IF idx = {} THEN -1
        ELSE (CHOOSE i \in idx : \A j \in idx : i <= j) - 1

UpperLetters ==
    <<"A", "B", "C", "D", "E", "F", "G", "H", "I", "J", "K", "L", "M",
      "N", "O", "P", "Q", "R", "S", "T", "U", "V", "W", "X", "Y", "Z">>
LowerLetters ==
    <<"a", "b", "c", "d", "e", "f", "g", "h", "i", "j", "k", "l", "m",
      "n", "o", "p", "q", "r", "s", "t", "u", "v", "w", "x", "y", "z">>

\* str.lower() on the letters of the explored alphabet
LowerOf ==
    [c \in {UpperLetters[k] : k \in 1..Len(UpperLetters)} |->
        LowerLetters[CHOOSE k \in 1..Len(UpperLetters) : UpperLetters[k] = c]]

LowerChar(c) == IF c \in DOMAIN LowerOf THEN LowerOf[c] ELSE c

Lower(s) == [i \in 1..Len(s) |-> LowerChar(s[i])]

\* needle in hay (Python substring test)
Contains(hay, needle) ==
    \E i \in 0..(Len(hay) - Len(needle)) :
        \A j \in 1..Len(needle) : hay[i + j] = needle[j]

\* s[:n]
Take(s, n) == SubSeq(s, 1, Min2(n, Len(s)))

\* decimal digits of n >= 0
RECURSIVE Digits(_)
Digits(n) ==
    LET d == <<"0", "1", "2", "3", "4", "5", "6", "7", "8", "9">>
    IN  IF n < 10 THEN <<d[n + 1]>> ELSE Append(Digits(n \div 10), d[(n % 10) + 1])

\* f"{n:04d}"
Pad4(n) ==
    LET ds == Digits(n)
    IN  IF Len(ds) >= 4 THEN ds ELSE Rep("0", 4 - Len(ds)) \o ds

\* ------------------------------------------------------------------------
\* ChunkingService
\* ------------------------------------------------------------------------

\* ChunkingService.__init__
ChunkingService(chunk_size, chunk_overlap) ==
    [chunk_size    |-> Max2(MIN_CHUNK_SIZE, Min2(chunk_size, MAX_CHUNK_SIZE)),
     chunk_overlap |-> Min2(chunk_overlap, FloorDiv(chunk_size, 2))]

\* variant of the word loop that flushes without testing current_chunk
RECURSIVE SplitOnWordsLoopNoGuard(_, _, _, _, _)
SplitOnWordsLoopNoGuard(self, words, k, chunks, current_chunk) ==
    IF k > Len(words)
    THEN IF current_chunk # <<>> THEN Append(chunks, Strip(current_chunk)) ELSE chunks
    ELSE LET word == words[k] IN
         IF Len(current_chunk) + Len(word) + 1 > self.chunk_size
         THEN SplitOnWordsLoopNoGuard(self, words, k + 1,
                  Append(chunks, Strip(current_chunk)), word)
         ELSE SplitOnWordsLoopNoGuard(self, words, k + 1, chunks,
                  IF current_chunk # <<>>
                  THEN current_chunk \o <<" ">> \o word ELSE word)

\* ChunkingService._split_on_words: the loop over words
RECURSIVE SplitOnWordsLoop(_, _, _, _, _)
SplitOnWordsLoop(self, words, k, chunks, current_chunk) ==
    IF k > Len(words)
    THEN IF current_chunk # <<>> THEN Append(chunks, Strip(current_chunk)) ELSE chunks
    ELSE LET word == words[k] IN
         IF Len(current_chunk) + Len(word) + 1 > self.chunk_size
         THEN SplitOnWordsLoop(self, words, k + 1,
                  IF current_chunk # <<>>
                  THEN Append(chunks, Strip(current_chunk)) ELSE chunks,
                  word)
         ELSE SplitOnWordsLoop(self, words, k + 1, chunks,
                  IF current_chunk # <<>>
                  THEN current_chunk \o <<" ">> \o word ELSE word)

split_on_words(self, text) ==
    SplitOnWordsLoop(self, SplitWords(text), 1, <<>>, <<>>)

\* xs[:-1]
ButLast(xs) == IF xs = <<>> THEN <<>> ELSE SubSeq(xs, 1, Len(xs) - 1)

\* variant of the hand-over that forgets the last piece
NothingLeft(xs) == <<>>

\* xs[-1] if xs else ""
LastOrEmpty(xs) == IF xs = <<>> THEN <<>> ELSE xs[Len(xs)]

\* variant of the sentence loop that keeps an over-long sentence whole
RECURSIVE SplitLongParagraphLoopNoWords(_, _, _, _, _)
SplitLongParagraphLoopNoWords(self, sentences, k, chunks, current_chunk) ==
    IF k > Len(sentences)
    THEN IF current_chunk # <<>> THEN Append(chunks, Strip(current_chunk)) ELSE chunks
    ELSE LET sentence == sentences[k]
             flushed == IF current_chunk # <<>>
                        THEN Append(chunks, Strip(current_chunk)) ELSE chunks
         IN
         IF Len(current_chunk) + Len(sentence) + 1 > self.chunk_size
         THEN SplitLongParagraphLoopNoWords(self, sentences, k + 1, flushed, sentence)
         ELSE SplitLongParagraphLoopNoWords(self, sentences, k + 1, chunks,
                  IF current_chunk # <<>>
                  THEN current_chunk \o <<" ">> \o sentence ELSE sentence)

\* ChunkingService._split_long_paragraph: the loop over sentences
RECURSIVE SplitLongParagraphLoop(_, _, _, _, _)
SplitLongParagraphLoop(self, sentences, k, chunks, current_chunk) ==
    IF k > Len(sentences)
    THEN IF current_chunk # <<>> THEN Append(chunks, Strip(current_chunk)) ELSE chunks
    ELSE LET sentence == sentences[k]
             flushed == IF current_chunk # <<>>
                        THEN Append(chunks, Strip(current_chunk)) ELSE chunks
         IN
         IF Len(current_chunk) + Len(sentence) + 1 > self.chunk_size
         THEN IF Len(sentence) > self.chunk_size
              THEN LET word_chunks == split_on_words(self, sentence) IN
                   SplitLongParagraphLoop(self, sentences, k + 1,
                       flushed \o ButLast(word_chunks), LastOrEmpty(word_chunks))
              ELSE SplitLongParagraphLoop(self, sentences, k + 1, flushed, sentence)
         ELSE SplitLongParagraphLoop(self, sentences, k + 1, chunks,
                  IF current_chunk # <<>>
                  THEN current_chunk \o <<" ">> \o sentence ELSE sentence)

split_long_paragraph(self, paragraph) ==
    SplitLongParagraphLoop(self, SplitSentences(paragraph), 1, <<>>, <<>>)

\* variant of the paragraph loop that keeps an over-long paragraph whole
RECURSIVE SplitTextLoopNoFallback(_, _, _, _, _)
SplitTextLoopNoFallback(self, paragraphs, k, chunks, current_chunk) ==
    IF k > Len(paragraphs)
    THEN IF current_chunk # <<>> THEN Append(chunks, Strip(current_chunk)) ELSE chunks
    ELSE LET para == Strip(paragraphs[k])
             flushed == IF current_chunk # <<>>
                        THEN Append(chunks, Strip(current_chunk)) ELSE chunks
         IN
         IF para = <<>>
         THEN SplitTextLoopNoFallback(self, paragraphs, k + 1, chunks, current_chunk)
         ELSE IF Len(current_chunk) + Len(para) + 2 > self.chunk_size
         THEN SplitTextLoopNoFallback(self, paragraphs, k + 1, flushed, para)
         ELSE SplitTextLoopNoFallback(self, paragraphs, k + 1, chunks,
                  IF current_chunk # <<>>
                  THEN current_chunk \o <<"\n", "\n">> \o para ELSE para)

\* ChunkingService._split_text: the loop over paragraphs
RECURSIVE SplitTextLoop(_, _, _, _, _)
SplitTextLoop(self, paragraphs, k, chunks, current_chunk) ==
    IF k > Len(paragraphs)
    THEN IF current_chunk # <<>> THEN Append(chunks, Strip(current_chunk)) ELSE chunks
    ELSE LET para == Strip(paragraphs[k])
             flushed == IF current_chunk # <<>>
                        THEN Append(chunks, Strip(current_chunk)) ELSE chunks
         IN
         IF para = <<>>
         THEN SplitTextLoop(self, paragraphs, k + 1, chunks, current_chunk)
         ELSE IF Len(current_chunk) + Len(para) + 2 > self.chunk_size
         THEN IF Len(para) > self.chunk_size
              THEN LET para_chunks == split_long_paragraph(self, para) IN
                   SplitTextLoop(self, paragraphs, k + 1,
                       flushed \o ButLast(para_chunks), LastOrEmpty(para_chunks))
              ELSE SplitTextLoop(self, paragraphs, k + 1, flushed, para)
         ELSE SplitTextLoop(self, paragraphs, k + 1, chunks,
                  IF current_chunk # <<>>
                  THEN current_chunk \o <<"\n", "\n">> \o para ELSE para)

\* ChunkingService._split_text up to the overlap step: the raw sub-chunks
split_text_raw(self, text) ==
    SplitTextLoop(self, SplitParagraphs(text), 1, <<>>, <<>>)

\* variant of the snippet that is not trimmed to a space
overlap_text_untrimmed(self, prev_chunk) ==
    IF Len(prev_chunk) > self.chunk_overlap
    THEN SubSeq(prev_chunk, Len(prev_chunk) - self.chunk_overlap + 1, Len(prev_chunk))
    ELSE prev_chunk

\* ChunkingService._add_overlap: the snippet taken from the previous chunk
overlap_text(self, prev_chunk) ==
    LET tail == IF Len(prev_chunk) > self.chunk_overlap
                THEN SubSeq(prev_chunk,
                            Len(prev_chunk) - self.chunk_overlap + 1,
                            Len(prev_chunk))
                ELSE prev_chunk
        space_idx == Find(tail, " ")
    IN  IF space_idx > 0 THEN SubSeq(tail, space_idx + 2, Len(tail)) ELSE tail

\* variant of _add_overlap that leaves out the marker
add_overlap_nomarker(self, chunks) ==
    [i \in 1..Len(chunks) |->
        IF i = 1 THEN chunks[i]
        ELSE overlap_text(self, chunks[i - 1]) \o <<" ">> \o chunks[i]]

\* variant of _add_overlap that draws the snippet from the chunk itself
add_overlap_from_self(self, chunks) ==
    [i \in 1..Len(chunks) |->
        IF i = 1 THEN chunks[i]
        ELSE <<".", ".", ".">> \o overlap_text(self, chunks[i])
                 \o <<" ">> \o chunks[i]]

\* ChunkingService._add_overlap
add_overlap(self, chunks) ==
    [i \in 1..Len(chunks) |->
        IF i = 1 THEN chunks[i]
        ELSE <<".", ".", ".">> \o overlap_text(self, chunks[i - 1])
                 \o <<" ">> \o chunks[i]]

\* ChunkingService._split_text
split_text(self, text) ==
    LET chunks == split_text_raw(self, text)
    IN  IF self.chunk_overlap > 0 /\ Len(chunks) > 1
        THEN add_overlap(self, chunks) ELSE chunks

\* variant of _format_chunk_content that compares case-sensitively
format_chunk_content_cased(section_title, content) ==
    IF /\ section_title # <<>>
       /\ ~Contains(Take(content, TITLE_WINDOW), section_title)
    THEN <<"[">> \o section_title \o <<"]", "\n">> \o content
    ELSE content

\* ChunkingService._format_chunk_content
format_chunk_content(section_title, content) ==
    IF /\ section_title # <<>>
       /\ ~Contains(Take(Lower(content), TITLE_WINDOW), Lower(section_title))
    THEN <<"[">> \o section_title \o <<"]", "\n">> \o content
    ELSE content

\* f"{property_id}_{ingestion_id}_{index:04d}"
ChunkId(property_id, ingestion_id, index) ==
    property_id \o <<"_">> \o ingestion_id \o <<"_">> \o Pad4(index)

\* variant of the DocumentChunk that numbers the parts by the global index
DocumentChunkPartByIndex(section, document, property_id, ingestion_id, index, text, part, parts) ==
    [id             |-> ChunkId(property_id, ingestion_id, index),
     content        |-> format_chunk_content(section.title, text),
     section_title  |-> section.title,
     doc_type       |-> document.doc_type,
     language       |-> document.language,
     is_critical    |-> section.is_critical,
     source_url     |-> document.source_url,
     source_filename |-> document.source_filename,
     property_id    |-> property_id,
     chunk_index    |-> index,
     total_chunks   |-> 0,
     metadata       |-> [ingestion_id   |-> ingestion_id,
                         document_title |-> document.title,
                         section_level  |-> section.level,
                         chunk_part     |-> index + 1,
                         section_parts  |-> parts]]

\* the DocumentChunk built in _chunk_section; metadata.chunk_part = 0 stands
\* for a metadata dict without the keys chunk_part and section_parts
DocumentChunk(section, document, property_id, ingestion_id, index, text, part, parts) ==
    [id             |-> ChunkId(property_id, ingestion_id, index),
     content        |-> format_chunk_content(section.title, text),
     section_title  |-> section.title,
     doc_type       |-> document.doc_type,
     language       |-> document.language,
     is_critical    |-> section.is_critical,
     source_url     |-> document.source_url,
     source_filename |-> document.source_filename,
     property_id    |-> property_id,
     chunk_index    |-> index,
     total_chunks   |-> 0,
     metadata       |-> [ingestion_id   |-> ingestion_id,
                         document_title |-> document.title,
                         section_level  |-> section.level,
                         chunk_part     |-> part,
                         section_parts  |-> parts]]

\* variant of _chunk_section without the early return on empty content
chunk_section_noskip(self, section, document, property_id, ingestion_id, start_index) ==
    LET content == Strip(section.content) IN
    IF Len(content) <= self.chunk_size
    THEN <<DocumentChunk(section, document, property_id, ingestion_id,
                         start_index, content, 0, 0)>>
    ELSE LET text_chunks == split_text(self, content) IN
         [i \in 1..Len(text_chunks) |->
             DocumentChunk(section, document, property_id, ingestion_id,
                           start_index + (i - 1), text_chunks[i],
                           i, Len(text_chunks))]

\* variant of _chunk_section that keeps a section whole only up to half of
\* chunk_size
chunk_section_half(self, section, document, property_id, ingestion_id, start_index) ==
    LET content == Strip(section.content) IN
    IF content = <<>> THEN <<>>
    ELSE IF 2 * Len(content) <= self.chunk_size
    THEN <<DocumentChunk(section, document, property_id, ingestion_id,
                         start_index, content, 0, 0)>>
    ELSE LET text_chunks == split_text([self EXCEPT !.chunk_size = @ \div 2],
                                       content) IN
         [i \in 1..Len(text_chunks) |->
             DocumentChunk(section, document, property_id, ingestion_id,
                           start_index + (i - 1), text_chunks[i],
                           i, Len(text_chunks))]

\* ChunkingService._chunk_section
chunk_section(self, section, document, property_id, ingestion_id, start_index) ==
    LET content == Strip(section.content) IN
    IF content = <<>> THEN <<>>
    ELSE IF Len(content) <= self.chunk_size
    THEN <<DocumentChunk(section, document, property_id, ingestion_id,
                         start_index, content, 0, 0)>>
    ELSE LET text_chunks == split_text(self, content) IN
         [i \in 1..Len(text_chunks) |->
             DocumentChunk(section, document, property_id, ingestion_id,
                           start_index + (i - 1), text_chunks[i],
                           i, Len(text_chunks))]

\* variant of the section loop that numbers every section from 0
RECURSIVE ChunkDocumentLoopRestart(_, _, _, _, _, _, _)
ChunkDocumentLoopRestart(self, document, property_id, ingestion_id, k, chunks, chunk_counter) ==
    IF k > Len(document.sections) THEN chunks
    ELSE LET section_chunks == chunk_section(self, document.sections[k], document,
                                   property_id, ingestion_id, 0)
         IN  ChunkDocumentLoopRestart(self, document, property_id, ingestion_id,
                 k + 1, chunks \o section_chunks, 0)

\* variant of the section loop that puts each section before the earlier ones
RECURSIVE ChunkDocumentLoopPrepend(_, _, _, _, _, _, _)
ChunkDocumentLoopPrepend(self, document, property_id, ingestion_id, k, chunks, chunk_counter) ==
    IF k > Len(document.sections) THEN chunks
    ELSE LET section_chunks == chunk_section(self, document.sections[k], document,
                                   property_id, ingestion_id, chunk_counter)
         IN  ChunkDocumentLoopPrepend(self, document, property_id, ingestion_id,
                 k + 1, section_chunks \o chunks,
                 chunk_counter + Len(section_chunks))

\* ChunkingService.chunk_document: the loop over document.sections
RECURSIVE ChunkDocumentLoop(_, _, _, _, _, _, _)
ChunkDocumentLoop(self, document, property_id, ingestion_id, k, chunks, chunk_counter) ==
    IF k > Len(document.sections) THEN chunks
    ELSE LET section_chunks == chunk_section(self, document.sections[k], document,
                                   property_id, ingestion_id, chunk_counter)
         IN  ChunkDocumentLoop(self, document, property_id, ingestion_id, k + 1,
                 chunks \o section_chunks, chunk_counter + Len(section_chunks))

\* variant of chunk_document without the final total_chunks update
chunk_document_nofill(self, document, property_id, ingestion_id) ==
    ChunkDocumentLoop(self, document, property_id, ingestion_id, 1, <<>>, 0)

\* ChunkingService.chunk_document
chunk_document(self, document, property_id, ingestion_id) ==
    LET chunks == ChunkDocumentLoop(self, document, property_id, ingestion_id,
                                    1, <<>>, 0)
    IN  [i \in 1..Len(chunks) |-> [chunks[i] EXCEPT !.total_chunks = Len(chunks)]]


\* ------------------------------------------------------------------------
\* Explored inputs of the chunker
\* ------------------------------------------------------------------------
BlockWord     == Rep("x", WordLen) \o <<" ">>
BlockSentence == Rep("x", WordLen) \o <<".", " ">>
BlockLong     == Rep("y", LongLen) \o <<" ">>
BlockShort    == <<"A", "b", " ", "c", "d", " ">>
BlockBlank    == <<"\n", "\n">>
Blocks == {BlockWord, BlockSentence, BlockLong, BlockShort, BlockBlank}

\* all concatenations of at most n blocks
RECURSIVE Texts(_)
Texts(n) ==
    IF n = 0 THEN {<<>>}
    ELSE LET T == Texts(n - 1) IN T \cup {t \o b : t \in T, b \in Blocks}

Titles == {<<>>, <<"A", "b">>, <<"Z", "t">>}

LeadContents == {<<" ">>, <<"c", "d">>, BlockWord \o BlockWord}

PropertyId  == <<"p", "1">>
IngestionId == <<"i", "1">>

\* Python None and "" (both falsy)
None == <<>>

ParsedSection(title, content, level, is_critical) ==
    [title |-> title, content |-> content, level |-> level,
     is_critical |-> is_critical]

ParsedDocument(title, sections, source_url, source_filename) ==
    [title |-> title, sections |-> sections, doc_type |-> "house_manual",
     language |-> "en", source_url |-> source_url,
     source_filename |-> source_filename]

\* a title that differs from the "Ab" of BlockShort in case only
TitleOtherCase == <<"a", "B">>

Documents ==
    {ParsedDocument(<<"d">>, <<ParsedSection(t, c, 1, FALSE)>>, <<"u">>, None) :
        t \in Titles, c \in Texts(MaxBlocks)}
    \cup
    {ParsedDocument(<<"d">>,
                    <<ParsedSection(<<"Z", "t">>, l, 2, TRUE),
                      ParsedSection(t, c, 1, FALSE)>>, <<"u">>, None) :
        l \in LeadContents, t \in Titles, c \in Texts(MaxBlocks)}

ChunkSizeArgs    == {50, 120, 500, 5000}
ChunkOverlapArgs == {0, 10, 9000}

NoService == [chunk_size |-> 0, chunk_overlap |-> 0]

\* ------------------------------------------------------------------------
\* State
\* ------------------------------------------------------------------------
VARIABLES
    \* one use of the chunker
    args,           \* arguments of ChunkingService(...)
    service,        \* self.chunk_size, self.chunk_overlap
    document,       \* the ParsedDocument handed to chunk_document
    result,         \* the list chunk_document returned
    pc,             \* "new", "ready", "returned"; "pipeline" in the pipeline
    \* several uses of one chunker at a time
    calls,          \* per caller: the locals of its chunk_document invocation
    returned,       \* what the finished invocations returned
    \* one use of the document parser
    fetched,        \* the content fetched and handed to the parser
    \* the ingestion pipeline
    jobs,           \* state group "ingestion_jobs": ingestion_id -> job
    events,         \* emitted events not yet handled, per topic
    table,          \* rows of the LanceDB table property_docs
    last_response,  \* response of the latest POST /ingest
    \* handlers taken one await at a time
    request,        \* the POST /ingest handler: where it is, and its locals
    embedding,      \* per DocumentEmbed handler: where it is, and its locals
    \* one use of LanceDBService.search
    search          \* its arguments, the rows the table gave and what it returned

callVars == <<calls, returned>>
parserVars == <<fetched>>
chunkerVars == <<args, service, document, result, callVars, parserVars>>
stepVars == <<request, embedding, search>>
pipelineVars == <<jobs, events, table, last_response, stepVars>>
vars == <<args, service, document, result, pc, calls, returned, fetched, jobs,
          events, table, last_response, request, embedding, search>>

NoEvents ==
    [discovery |-> {}, parse |-> {}, chunk |-> {}, embed |-> {},
     error |-> {}, complete |-> {}, notification |-> {}]

NoResponse == [status |-> 0, ingestion_id |-> None, documents_queued |-> 0]

\* no POST /ingest under way
NoRequest ==
    [at |-> "idle", ingestion_id |-> <<>>,
     body |-> [property_id |-> <<>>, sources |-> <<>>,
               overwrite_existing |-> TRUE, notify_email |-> <<>>]]

\* no DocumentEmbed handler taken step by step
NoEmbedding == <<>>

\* LanceDBService.search not called
NoSearch == [limit |-> 0, include_critical_boost |-> TRUE,
             candidates |-> <<>>, results |-> <<>>]

\* nothing handed to the parser
NoFetched == [kind |-> "none", parts |-> <<>>]

\* the threads that use the chunker at the same time
Callers == {1, 2}

\* no invocation of chunk_document made so far
NoCalls ==
    [t \in Callers |->
        [pc |-> "idle", document |-> ParsedDocument(None, <<>>, None, None),
         k |-> 0, chunks |-> <<>>, chunk_counter |-> 0, made |-> 0]]

Init ==
    /\ args \in [chunk_size : ChunkSizeArgs, chunk_overlap : ChunkOverlapArgs]
    /\ document \in Documents
    /\ service = NoService
    /\ result = <<>>
    /\ pc = "new"
    /\ jobs = <<>>
    /\ events = NoEvents
    /\ table = <<>>
    /\ last_response = NoResponse
    /\ calls = NoCalls
    /\ returned = {}
    /\ fetched = NoFetched
    /\ request = NoRequest
    /\ embedding = NoEmbedding
    /\ search = NoSearch

\* chunker = ChunkingService(chunk_size, chunk_overlap)
Construct ==
    /\ pc = "new"
    /\ service' = ChunkingService(args.chunk_size, args.chunk_overlap)
    /\ pc' = "ready"
    /\ UNCHANGED <<args, document, result, callVars, parserVars>>
    /\ UNCHANGED pipelineVars

\* chunks = chunker.chunk_document(document, property_id, ingestion_id)
ChunkDocument ==
    /\ pc = "ready"
    /\ result' = chunk_document(service, document, PropertyId, IngestionId)
    /\ pc' = "returned"
    /\ UNCHANGED <<args, service, document, callVars, parserVars>>
    /\ UNCHANGED pipelineVars

Next == Construct \/ ChunkDocument

Spec == Init /\ [][Next]_vars

\* ------------------------------------------------------------------------
\* The chunker on documents chosen for the shape of its chunks: titles that
\* occur in the text in another case, sections exactly chunk_size long
\* ------------------------------------------------------------------------
SectionTitles == {<<>>, <<"A", "b">>, TitleOtherCase}

SectionDocuments ==
    {ParsedDocument(<<"d">>, <<ParsedSection(t, c, 1, FALSE)>>, <<"u">>, None) :
        t \in SectionTitles, c \in Texts(MaxBlocks)}
    \cup
    {ParsedDocument(<<"d">>,
                    <<ParsedSection(<<"Z", "t">>, l, 2, TRUE),
                      ParsedSection(<<"A", "b">>, c, 1, FALSE)>>, <<"u">>, None) :
        l \in {<<"c", "d">>, BlockWord \o BlockWord}, c \in Texts(MaxBlocks)}

\* 2 * WordLen + 1 is the trimmed length of two words joined by a space
SectionSizeArgs == {50, 2 * WordLen + 1, 500}

SectionsInit ==
    /\ args \in [chunk_size : SectionSizeArgs, chunk_overlap : ChunkOverlapArgs]
    /\ document \in SectionDocuments
    /\ service = NoService
    /\ result = <<>>
    /\ pc = "new"
    /\ calls = NoCalls
    /\ returned = {}
    /\ fetched = NoFetched
    /\ request = NoRequest
    /\ embedding = NoEmbedding
    /\ search = NoSearch
    /\ jobs = <<>>
    /\ events = NoEvents
    /\ table = <<>>
    /\ last_response = NoResponse

Sections == SectionsInit /\ [][Next]_vars

\* ------------------------------------------------------------------------
\* Properties of the chunker
\* ------------------------------------------------------------------------
Returned == pc = "returned"

\* a text that is empty after trimming
Blank(text) == \A i \in 1..Len(text) : IsSpace(text[i])

\* the part of text after its last whitespace character
LastToken(text) ==
    LET sp == {i \in 1..Len(text) : IsSpace(text[i])}
    IN  IF sp = {} THEN text
        ELSE SubSeq(text, (CHOOSE i \in sp : \A j \in sp : j <= i) + 1, Len(text))

\* the sections of the document that are split into raw sub-chunks
SplitSections ==
    {k \in 1..Len(document.sections) :
        Len(Strip(document.sections[k].content)) > service.chunk_size}

RawChunks(k) == split_text_raw(service, Strip(document.sections[k].content))

\* C1: the chunk_index values of the returned chunks, in output order, are
\* 0, 1, ..., n-1, counted across the whole document.
C1_IndexContiguous ==
    Returned => \A i \in 1..Len(result) : result[i].chunk_index = i - 1

C1_Witness ==
    /\ Returned
    /\ Len(result) >= 3
    /\ result[1].metadata.section_level # result[Len(result)].metadata.section_level
    /\ result[Len(result)].metadata.chunk_part >= 2

\* C2: every returned chunk has total_chunks equal to the length of the
\* returned sequence.
C2_TotalChunks ==
    Returned => \A i \in 1..Len(result) : result[i].total_chunks = Len(result)

C2_Witness ==
    /\ Returned
    /\ Len(result) = 4
    /\ result[1].metadata.chunk_part = 0
    /\ result[2].metadata.section_parts = 3
    /\ \A i \in 1..4 : result[i].total_chunks = 4

\* C4 (as claimed): every chunk content is at most chunk_size characters long
\* unless the chunk holds a whitespace-free token longer than chunk_size.
C4_ContentWithinChunkSize ==
    Returned =>
        \A i \in 1..Len(result) :
            \/ Len(result[i].content) <= service.chunk_size
            \/ Len(LastToken(result[i].content)) > service.chunk_size

\* what the overlap prefix and the title prefix can add to a raw sub-chunk
OverlapExtra(chunk) ==
    IF chunk.metadata.chunk_part >= 2 /\ service.chunk_overlap > 0
    THEN service.chunk_overlap + 4 ELSE 0

TitleExtra(chunk) ==
    IF chunk.section_title # <<>> THEN Len(chunk.section_title) + 3 ELSE 0

\* C4 (amended): a chunk content exceeds chunk_size by at most the overlap
\* prefix (chunk_overlap + 4, not on the first chunk of a section) and the
\* title prefix (len(title) + 3); the only other excess is a chunk whose text
\* is a single whitespace-free token longer than chunk_size.
C4_ContentWithinChunkSizePlusPrefixes ==
    Returned =>
        \A i \in 1..Len(result) :
            Len(result[i].content) <=
                Max2(service.chunk_size, Len(LastToken(result[i].content)))
                + OverlapExtra(result[i]) + TitleExtra(result[i])

C4_Witness ==
    /\ Returned
    /\ \E i \in 1..Len(result) :
          /\ Len(result[i].content) > service.chunk_size
          /\ Len(LastToken(result[i].content)) <= service.chunk_size
          /\ result[i].metadata.chunk_part >= 2

\* C5: the effective chunk_overlap is at most half of the effective
\* chunk_size.
C5_OverlapAtMostHalf ==
    pc # "new" => 2 * service.chunk_overlap <= service.chunk_size

\* C8: no returned chunk has empty content, and none of the paragraph,
\* sentence and word passes yields an empty string.
C8_NonEmptyContent ==
    Returned =>
        /\ \A i \in 1..Len(result) : result[i].content # <<>>
        /\ \A k \in 1..Len(document.sections) :
              LET content == Strip(document.sections[k].content)
                  byPara == split_text_raw(service, content)
                  bySent == split_long_paragraph(service, content)
                  byWord == split_on_words(service, content)
              IN  /\ \A i \in 1..Len(byPara) : byPara[i] # <<>>
                  /\ \A i \in 1..Len(bySent) : bySent[i] # <<>>
                  /\ \A i \in 1..Len(byWord) : byWord[i] # <<>>

C8_Witness ==
    /\ Returned
    /\ \E k \in SplitSections :
          /\ Len(RawChunks(k)) >= 2
          /\ Len(RawChunks(k)[1]) > service.chunk_size
    /\ \E i \in 1..Len(result) : result[i].metadata.chunk_part >= 2

\* C9: the result is empty exactly when every section is empty after
\* trimming; such a section contributes no chunk, every other section
\* contributes at least one.
C9_EmptyIffAllBlank ==
    Returned =>
        /\ (result = <<>>) <=>
              (\A k \in 1..Len(document.sections) :
                    Blank(document.sections[k].content))
        /\ \A k \in 1..Len(document.sections) :
              Blank(document.sections[k].content) <=>
                  (chunk_section(service, document.sections[k], document,
                                 PropertyId, IngestionId, 0) = <<>>)
        /\ Len(result) >=
              Cardinality({k \in 1..Len(document.sections) :
                              ~Blank(document.sections[k].content)})

C9_Witness ==
    /\ Returned
    /\ result = <<>>
    /\ Len(document.sections) = 2
    /\ document.sections[1].content # <<>>
    /\ document.sections[2].content # <<>>

\* position in prev of the first character of its suffix snip
SnippetStart(prev, snip) == Len(prev) - Len(snip) + 1

\* the window _add_overlap cuts from the previous raw chunk
OverlapWindow(prev) ==
    IF Len(prev) > service.chunk_overlap
    THEN SubSeq(prev, Len(prev) - service.chunk_overlap + 1, Len(prev))
    ELSE prev

\* the pairs <<k, i>>: raw sub-chunk i of section k receives an overlap prefix
OverlapSites ==
    IF service.chunk_overlap > 0
    THEN {<<k, i>> \in SplitSections \X (2..(2 * MaxBlocks + 2)) :
              i <= Len(RawChunks(k))}
    ELSE {}

NumChunks(k) ==
    LET content == Strip(document.sections[k].content) IN
    IF content = <<>> THEN 0
    ELSE IF Len(content) <= service.chunk_size THEN 1
    ELSE Len(RawChunks(k))

\* the number of chunks the sections before section k contribute
RECURSIVE Offset(_)
Offset(k) == IF k <= 1 THEN 0 ELSE Offset(k - 1) + NumChunks(k - 1)

\* the i-th returned chunk of section k
ResultChunk(k, i) == result[Offset(k) + i]

\* the last n characters of text
Suffix(text, n) == SubSeq(text, Len(text) - n + 1, Len(text))

EndsWith(text, tail) ==
    /\ Len(tail) <= Len(text)
    /\ Suffix(text, Len(tail)) = tail

\* content ends with the marker, a non-empty tail of prev, one space and own
HasOverlapPrefix(content, prev, own) ==
    \E n \in 1..Len(prev) :
        EndsWith(content, <<".", ".", ".">> \o Suffix(prev, n) \o <<" ">> \o own)

\* the sections split into two or more raw sub-chunks
MultiChunkSections == {k \in SplitSections : Len(RawChunks(k)) >= 2}

\* C11 (as claimed): for every configuration, every chunk but the first of a
\* section split into two or more raw sub-chunks holds the marker "...", text
\* from the tail of the previous raw sub-chunk and one space before its own
\* text.
C11_LaterChunksCarryOverlap ==
    Returned =>
        \A k \in MultiChunkSections :
            LET raw == RawChunks(k) IN
            \A i \in 2..Len(raw) :
                HasOverlapPrefix(ResultChunk(k, i).content, raw[i - 1], raw[i])

\* C11 (amended): the same holds for every configuration whose effective
\* chunk_overlap is greater than 0; with chunk_overlap <= 0 no chunk receives
\* a marker and each chunk ends with exactly its raw sub-chunk.
C11_LaterChunksCarryOverlapWhenPositive ==
    Returned =>
        \A k \in MultiChunkSections :
            LET raw == RawChunks(k) IN
            \A i \in 2..Len(raw) :
                IF service.chunk_overlap > 0
                THEN HasOverlapPrefix(ResultChunk(k, i).content, raw[i - 1], raw[i])
                ELSE ResultChunk(k, i).content =
                         format_chunk_content(document.sections[k].title, raw[i])

C11_Witness ==
    /\ Returned
    /\ service.chunk_overlap > 0
    /\ \E k \in MultiChunkSections :
          /\ Len(RawChunks(k)) >= 3
          /\ document.sections[k].title # <<>>
          /\ HasOverlapPrefix(ResultChunk(k, 3).content,
                              RawChunks(k)[2], RawChunks(k)[3])

\* the text handed to the formatter for chunk i of section k, had it no
\* overlap prefix
OwnText(k, i) ==
    LET content == Strip(document.sections[k].content) IN
    IF Len(content) <= service.chunk_size THEN content ELSE RawChunks(k)[i]

\* C12: the first (or only) chunk of every section carries no overlap prefix;
\* the overlap text of every other chunk is a tail, at most chunk_overlap
\* long, of the previous raw sub-chunk of the same section, as it was before
\* any overlap was added.
C12_OverlapWithinSection ==
    Returned =>
        \A k \in 1..Len(document.sections) :
            LET title == document.sections[k].title
                first == Offset(k)
                count == NumChunks(k)
                raw   == RawChunks(k)
            IN
            /\ count >= 1 =>
                  result[first + 1].content =
                      format_chunk_content(title, OwnText(k, 1))
            /\ \A i \in 2..count :
                  LET prev == raw[i - 1]
                      own == raw[i]
                      content == result[first + i].content
                  IN  IF service.chunk_overlap > 0
                      THEN \E m \in 1..Min2(Len(prev), service.chunk_overlap) :
                               LET text == <<".", ".", ".">> \o Suffix(prev, m)
                                               \o <<" ">> \o own
                               IN  /\ EndsWith(content, text)
                                   /\ content = format_chunk_content(title, text)
                      ELSE content = format_chunk_content(title, own)

C12_Witness ==
    /\ Returned
    /\ service.chunk_overlap > 0
    /\ Len(document.sections) = 2
    /\ NumChunks(1) = 1
    /\ 2 \in MultiChunkSections
    /\ \E i \in 2..NumChunks(2) :
          Len(RawChunks(2)[i - 1]) < service.chunk_overlap

\* the positions of the returned chunks that come from section k (the
\* sections of one explored document differ in level)
ChunksOfSection(k) ==
    {i \in 1..Len(result) :
        /\ result[i].metadata.section_level = document.sections[k].level
        /\ result[i].section_title = document.sections[k].title}

\* the one chunk of section k is its trimmed content, at most with the title
\* prefix, and without an overlap marker
WholeContentChunk(k) ==
    LET title == document.sections[k].title
        content == Strip(document.sections[k].content)
    IN  /\ Cardinality(ChunksOfSection(k)) = 1
        /\ \A i \in ChunksOfSection(k) :
              \/ result[i].content = content
              \/ /\ title # <<>>
                 /\ result[i].content = <<"[">> \o title \o <<"]", "\n">> \o content

\* C13 (as claimed): every section whose trimmed content is at most
\* chunk_size long yields exactly one chunk holding the whole trimmed content.
C13_ShortSectionOneChunk ==
    Returned =>
        \A k \in 1..Len(document.sections) :
            Len(Strip(document.sections[k].content)) <= service.chunk_size
            => WholeContentChunk(k)

\* C13 (amended): every section whose trimmed content is not empty and at
\* most chunk_size long (boundary included) yields exactly one chunk: the
\* whole trimmed content, at most with the title prefix, without overlap
\* marker. A section whose trimmed content is empty yields no chunk.
C13_ShortNonEmptySectionOneChunk ==
    Returned =>
        \A k \in 1..Len(document.sections) :
            LET n == Len(Strip(document.sections[k].content)) IN
            /\ (0 < n /\ n <= service.chunk_size) => WholeContentChunk(k)
            /\ n = 0 => ChunksOfSection(k) = {}

C13_Witness ==
    /\ Returned
    /\ Len(document.sections) = 1
    /\ Len(Strip(document.sections[1].content)) = service.chunk_size
    /\ document.sections[1].title # <<>>
    /\ Len(result) = 1
    /\ Len(result[1].content) > service.chunk_size

\* the smallest element of a non-empty set of numbers
MinOf(S) == CHOOSE i \in S : \A j \in S : i <= j

\* C14: the chunks of a section whose trimmed content is longer than
\* chunk_size carry chunk_part = 1, 2, ... in order and section_parts = the
\* number of chunks of that section; the chunk of a shorter section carries
\* neither key.
C14_PartsOnlyForSplitSections ==
    Returned =>
        \A k \in 1..Len(document.sections) :
            LET idx == ChunksOfSection(k) IN
            \A i \in idx :
                IF Len(Strip(document.sections[k].content)) > service.chunk_size
                THEN /\ result[i].metadata.chunk_part = i - MinOf(idx) + 1
                     /\ result[i].metadata.section_parts = Cardinality(idx)
                ELSE /\ result[i].metadata.chunk_part = 0
                     /\ result[i].metadata.section_parts = 0

C14_Witness ==
    /\ Returned
    /\ Len(document.sections) = 2
    /\ Len(result) = 4
    /\ result[1].metadata.chunk_part = 0
    /\ result[1].metadata.section_parts = 0
    /\ \A i \in 2..4 :
          /\ result[i].metadata.chunk_part = i - 1
          /\ result[i].metadata.section_parts = 3

\* the texts _chunk_section hands to the formatter for section k
SectionTexts(k) ==
    LET content == Strip(document.sections[k].content) IN
    IF content = <<>> THEN <<>>
    ELSE IF Len(content) <= service.chunk_size THEN <<content>>
    ELSE split_text(service, content)

\* title occurs in the first TITLE_WINDOW characters of text, letters compared
\* without regard to case
TitleOccurs(title, text) ==
    \E p \in 1..(Min2(Len(text), TITLE_WINDOW) - Len(title) + 1) :
        \A j \in 1..Len(title) : LowerChar(text[p + j - 1]) = LowerChar(title[j])

\* C15: a chunk's content is "[" + title + "]" + newline + text when the
\* title is not empty and does not occur, case-insensitively, in the first
\* 100 characters of text, and text unchanged otherwise; text is what the
\* formatter was handed (with the overlap prefix in a split section).
C15_TitlePrefixRule ==
    Returned =>
        \A k \in 1..Len(document.sections) :
            LET title == document.sections[k].title
                texts == SectionTexts(k)
                first == Offset(k)
            IN  \A i \in 1..Len(texts) :
                    result[first + i].content =
                        IF title # <<>> /\ ~TitleOccurs(title, texts[i])
                        THEN <<"[">> \o title \o <<"]", "\n">> \o texts[i]
                        ELSE texts[i]

\* a chunk that got the prefix although its text holds the title, written in
\* another case, after the first 100 characters
C15_Witness ==
    /\ Returned
    /\ document.sections[1].title = TitleOtherCase
    /\ \E i \in 1..Len(result) :
          /\ result[i].content # SectionTexts(1)[i]
          /\ Contains(Lower(SectionTexts(1)[i]), Lower(TitleOtherCase))

\* a chunk left without prefix because its text starts with the title written
\* in another case
C15_OtherCaseFound ==
    /\ Returned
    /\ document.sections[1].title = TitleOtherCase
    /\ Len(result) >= 1
    /\ result[1].content = SectionTexts(1)[1]
    /\ ~Contains(SectionTexts(1)[1], TitleOtherCase)

\* the section a returned chunk was cut from, told by its title and level
SectionOf(p) == CHOOSE k \in 1..Len(document.sections) : p \in ChunksOfSection(k)

\* place of the chunk at position p among the returned chunks of its section
RankInSection(p) ==
    Cardinality({q \in ChunksOfSection(SectionOf(p)) : q <= p})

\* the texts the chunks of section k are cut to, before overlap and title
OwnTexts(k) ==
    LET content == Strip(document.sections[k].content) IN
    IF content = <<>> THEN <<>>
    ELSE IF Len(content) <= service.chunk_size THEN <<content>>
    ELSE RawChunks(k)

\* number of words in the first j texts of own
RECURSIVE WordsIn(_, _)
WordsIn(own, j) ==
    IF j <= 0 THEN 0 ELSE WordsIn(own, j - 1) + Len(SplitWords(own[j]))

\* the j-th text of own holds the words that follow those of the texts
\* before it
CoversInOrder(words, own, j) ==
    LET mine  == SplitWords(own[j])
        start == WordsIn(own, j - 1)
    IN  /\ start + Len(mine) <= Len(words)
        /\ mine = SubSeq(words, start + 1, start + Len(mine))

\* C17: chunks are returned in document order: chunk_index grows along the
\* returned sequence, a chunk's section is never later in document.sections
\* than the section of a chunk after it, and within a section the j-th chunk
\* ends with the j-th stretch of the section's text.
C17_DocumentOrder ==
    Returned =>
        /\ \A p \in 1..(Len(result) - 1) :
              /\ result[p].chunk_index < result[p + 1].chunk_index
              /\ SectionOf(p) <= SectionOf(p + 1)
        /\ \A k \in 1..Len(document.sections) :
              LET own   == OwnTexts(k)
                  at    == SortedSeq(ChunksOfSection(k))
                  words == SplitWords(Strip(document.sections[k].content))
              IN  /\ Len(at) = Len(own)
                  /\ \A j \in 1..Len(own) :
                        /\ EndsWith(result[at[j]].content, own[j])
                        /\ CoversInOrder(words, own, j)

\* two sections that are both split into several chunks of different text
C17_Witness ==
    /\ Returned
    /\ Len(document.sections) = 2
    /\ Cardinality(ChunksOfSection(1)) >= 2
    /\ Cardinality(ChunksOfSection(2)) >= 3
    /\ \E p, q \in ChunksOfSection(2) :
          OwnTexts(2)[RankInSection(p)] # OwnTexts(2)[RankInSection(q)]

\* ------------------------------------------------------------------------
\* Ingestion pipeline: explored requests
\* ------------------------------------------------------------------------
MaxSources == 2

\* value of uuid.uuid4() in "ing_<hex>" for the explored request, and the one
\* of an ingestion that ran to completion before
IngestionIds == {<<"i", "1">>}
EarlierId    == <<"i", "0">>

SourceUrl   == [url |-> <<"u">>, file_path |-> None]
SourceFile  == [url |-> None, file_path |-> <<"/", "f">>]
SourceEmpty == [url |-> None, file_path |-> None]

SourceLists ==
    UNION {[1..n -> {SourceUrl, SourceFile, SourceEmpty}] : n \in 0..MaxSources}

\* request bodies of POST /ingest
Bodies ==
    [property_id : {PropertyId, None}, sources : SourceLists,
     overwrite_existing : BOOLEAN, notify_email : {None}]

\* the section lists DocumentParser hands back for the explored documents
SectionsBlank ==
    <<ParsedSection(<<"C", "o", "n", "t", "e", "n", "t">>, <<" ">>, 1, FALSE)>>
SectionsText ==
    <<ParsedSection(<<"A", "b">>, <<"c", "d">>, 1, FALSE)>>
ParsedShapes == {SectionsBlank, SectionsText}

\* ------------------------------------------------------------------------
\* Ingestion pipeline: helpers
\* ------------------------------------------------------------------------

\* the positions of outcome that hold one of the values wanted, in order
Positions(outcome, wanted) ==
    SortedSeq({i \in 1..Len(outcome) : outcome[i] \in wanted})

\* concatenation of a sequence of sequences
RECURSIVE Flatten(_)
Flatten(xss) == IF xss = <<>> THEN <<>> ELSE Head(xss) \o Flatten(Tail(xss))

\* os.path.basename
Basename(path) ==
    LET slashes == {i \in 1..Len(path) : path[i] = "/"}
    IN  IF slashes = {} THEN path
        ELSE SubSeq(path,
                    (CHOOSE i \in slashes : \A j \in slashes : j <= i) + 1,
                    Len(path))

\* an error message: fixed text and the thing it is about
ErrorMsg(text, about) == [text |-> text, about |-> about]

\* a or b (Python truthiness on strings)
Or2(a, b) == IF a # None THEN a ELSE b

\* the job written by POST /ingest; failed_stage "" stands for the absent key
NewJob(ingestion_req, valid_sources) ==
    [property_id          |-> ingestion_req.property_id,
     status               |-> "processing",
     notify_email         |-> ingestion_req.notify_email,
     overwrite_existing   |-> ingestion_req.overwrite_existing,
     total_documents      |-> Len(valid_sources),
     documents_discovered |-> 0,
     documents_parsed     |-> 0,
     documents_chunked    |-> 0,
     documents_embedded   |-> 0,
     chunks_created       |-> 0,
     errors               |-> <<>>,
     failed_stage         |-> ""]

\* context.state.get("ingestion_jobs", ingestion_id); NoJob when there is none
NoJob == [status |-> "none", errors |-> <<>>, notify_email |-> None]

GetJob(ingestion_id) ==
    IF ingestion_id \in DOMAIN jobs THEN jobs[ingestion_id] ELSE NoJob

\* context.state.set("ingestion_jobs", ingestion_id, job) after "if job:"
UpdateJob(ingestion_id, job) ==
    IF ingestion_id \in DOMAIN jobs
    THEN [jobs EXCEPT ![ingestion_id] = job]
    ELSE jobs

Emit(topic_events) ==
    [t \in DOMAIN events |->
        IF t \in DOMAIN topic_events THEN events[t] \cup topic_events[t]
        ELSE events[t]]

Consume(topic, e, topic_events) ==
    [t \in DOMAIN events |->
        LET rest == IF t = topic THEN events[t] \ {e} ELSE events[t]
        IN  IF t \in DOMAIN topic_events THEN rest \cup topic_events[t] ELSE rest]

ErrorEvent(ingestion_id, property_id, stage, errors) ==
    [ingestion_id |-> ingestion_id, property_id |-> property_id,
     stage |-> stage, errors |-> errors]

Notification(type, ingestion_id, property_id, recipients) ==
    [type |-> type, ingestion_id |-> ingestion_id,
     property_id |-> property_id, recipients |-> recipients]

\* ------------------------------------------------------------------------
\* POST /ingest (start_ingestion_api_step.py)
\* ------------------------------------------------------------------------

\* IngestionRequest(**body): property_id and sources have min_length 1
BodyValid(body) == Len(body.property_id) >= 1 /\ Len(body.sources) >= 1

\* variant of the filter that keeps every source
AllSources(sources) == sources

ValidSources(sources) ==
    SelectSeq(sources, LAMBDA source : source.url # None \/ source.file_path # None)

StartIngestionRejected(body) ==
    /\ pc = "pipeline"
    /\ ~BodyValid(body) \/ ValidSources(body.sources) = <<>>
    /\ last_response' = [status |-> 400, ingestion_id |-> None,
                         documents_queued |-> 0]
    /\ UNCHANGED <<jobs, events, table, pc>>
    /\ UNCHANGED chunkerVars
    /\ UNCHANGED stepVars

StartIngestionAccepted(body, ingestion_id) ==
    LET valid_sources == ValidSources(body.sources) IN
    /\ pc = "pipeline"
    /\ BodyValid(body)
    /\ valid_sources # <<>>
    /\ ingestion_id \notin DOMAIN jobs
    /\ jobs' = jobs @@ (ingestion_id :> NewJob(body, valid_sources))
    /\ events' = Emit(
          [discovery |->
              {[ingestion_id |-> ingestion_id, property_id |-> body.property_id,
                sources |-> valid_sources,
                overwrite_existing |-> body.overwrite_existing]},
           notification |->
              IF body.notify_email # None
              THEN {Notification("ingestion_started", ingestion_id,
                                 body.property_id, <<body.notify_email>>)}
              ELSE {}])
    /\ last_response' = [status |-> 202, ingestion_id |-> ingestion_id,
                         documents_queued |-> Len(valid_sources)]
    /\ UNCHANGED <<table, pc>>
    /\ UNCHANGED chunkerVars
    /\ UNCHANGED stepVars

\* ------------------------------------------------------------------------
\* DocumentDiscovery (document_discovery_step.py)
\* ------------------------------------------------------------------------

\* _discover_source / _discover_url / _discover_file, when they return
DiscoverSource(source) ==
    IF source.url # None
    THEN [url |-> source.url, file_path |-> None, filename |-> None]
    ELSE [url |-> None, file_path |-> source.file_path,
          filename |-> Basename(source.file_path)]

\* variant that reports no failure of the stage
DiscoveryEmitsParseOnly(e, discovered_docs, errors) ==
    IF discovered_docs # <<>>
    THEN [parse |-> {[ingestion_id |-> e.ingestion_id,
                      property_id |-> e.property_id,
                      documents |-> discovered_docs,
                      overwrite_existing |-> e.overwrite_existing]}]
    ELSE <<>>

DiscoveryEmits(e, discovered_docs, errors) ==
    IF discovered_docs # <<>>
    THEN [parse |-> {[ingestion_id |-> e.ingestion_id,
                      property_id |-> e.property_id,
                      documents |-> discovered_docs,
                      overwrite_existing |-> e.overwrite_existing]}]
    ELSE IF errors # <<>>
    THEN [error |-> {ErrorEvent(e.ingestion_id, e.property_id, "discovery", errors)}]
    ELSE <<>>

\* outcome[i] tells whether _discover_source raised for source i
HandleDiscovery(e, outcome) ==
    LET ok == Positions(outcome, {"ok"})
        raised == Positions(outcome, {"raise"})
        discovered_docs == [k \in 1..Len(ok) |-> DiscoverSource(e.sources[ok[k]])]
        errors == [k \in 1..Len(raised) |->
                      ErrorMsg("Failed to discover source", Digits(raised[k] - 1))]
        job == GetJob(e.ingestion_id)
    IN
    /\ pc = "pipeline"
    /\ e \in events.discovery
    /\ jobs' = UpdateJob(e.ingestion_id,
          [job EXCEPT !.documents_discovered = Len(discovered_docs),
                      !.errors = @ \o errors])
    /\ events' = Consume("discovery", e, DiscoveryEmits(e, discovered_docs, errors))
    /\ UNCHANGED <<table, last_response, pc>>
    /\ UNCHANGED chunkerVars
    /\ UNCHANGED stepVars

\* ------------------------------------------------------------------------
\* DocumentParse (document_parse_step.py)
\* ------------------------------------------------------------------------

UNTITLED ==
    <<"U", "n", "t", "i", "t", "l", "e", "d", " ",
      "D", "o", "c", "u", "m", "e", "n", "t">>

\* _parse_document, when it returns: the parsed document as a dict
ParseDocument(doc, sections) ==
    ParsedDocument(Or2(Or2(doc.filename, Basename(doc.url)), UNTITLED),
                   sections, doc.url, doc.filename)

ParseEmits(e, parsed_docs, errors) ==
    IF parsed_docs # <<>>
    THEN [chunk |-> {[ingestion_id |-> e.ingestion_id,
                      property_id |-> e.property_id,
                      parsed_documents |-> parsed_docs,
                      overwrite_existing |-> e.overwrite_existing]}]
    ELSE IF errors # <<>>
    THEN [error |-> {ErrorEvent(e.ingestion_id, e.property_id, "parsing", errors)}]
    ELSE <<>>

\* outcome[i] is <<>> when _parse_document raised for document i, otherwise
\* <<sections>> with the section list the parser produced
HandleParse(e, outcome) ==
    LET ok == Positions(outcome, {<<sections>> : sections \in ParsedShapes})
        raised == Positions(outcome, {<<>>})
        parsed_docs == [k \in 1..Len(ok) |->
                           ParseDocument(e.documents[ok[k]], outcome[ok[k]][1])]
        errors == [k \in 1..Len(raised) |->
                      ErrorMsg("Failed to parse",
                          Or2(Or2(e.documents[raised[k]].url,
                                  e.documents[raised[k]].file_path),
                              <<"d", "o", "c", "u", "m", "e", "n", "t", "_">>
                                  \o Digits(raised[k] - 1)))]
        job == GetJob(e.ingestion_id)
    IN
    /\ pc = "pipeline"
    /\ e \in events.parse
    /\ jobs' = UpdateJob(e.ingestion_id,
          [job EXCEPT !.documents_parsed = Len(parsed_docs),
                      !.errors = @ \o errors])
    /\ events' = Consume("parse", e, ParseEmits(e, parsed_docs, errors))
    /\ UNCHANGED <<table, last_response, pc>>
    /\ UNCHANGED chunkerVars
    /\ UNCHANGED stepVars

\* ------------------------------------------------------------------------
\* DocumentChunk (document_chunk_step.py)
\* ------------------------------------------------------------------------
STEP_CHUNK_SIZE == 500
STEP_CHUNK_OVERLAP == 50

\* the dict appended to all_chunks for one DocumentChunk
ChunkDict(chunk) ==
    [id              |-> chunk.id,
     content         |-> chunk.content,
     section_title   |-> chunk.section_title,
     doc_type        |-> chunk.doc_type,
     language        |-> chunk.language,
     is_critical     |-> chunk.is_critical,
     source_url      |-> chunk.source_url,
     source_filename |-> chunk.source_filename,
     property_id     |-> chunk.property_id,
     chunk_index     |-> chunk.chunk_index,
     metadata        |-> chunk.metadata]

\* the dicts appended for the chunks of one document
ChunkDicts(chunks) == [i \in 1..Len(chunks) |-> ChunkDict(chunks[i])]

\* a section content that is None, where the chunker expects a string
PyNone == <<"None">>

\* chunk_document raises for the document: section.content.strip() on None
ChunkRaises(doc_data) ==
    \E k \in 1..Len(doc_data.sections) : doc_data.sections[k].content = PyNone

\* variant of the loop that gives up at the first document that raises
AllChunksUntilRaise(chunker, parsed_documents, property_id, ingestion_id) ==
    LET bad == {d \in 1..Len(parsed_documents) : ChunkRaises(parsed_documents[d])}
        stop == IF bad = {} THEN Len(parsed_documents) + 1
                ELSE CHOOSE d \in bad : \A b \in bad : d <= b
    IN  Flatten([d \in 1..(stop - 1) |->
                    ChunkDicts(chunk_document(chunker, parsed_documents[d],
                                              property_id, ingestion_id))])

\* all_chunks after the loop over parsed_documents: a document that raises
\* adds nothing, the loop goes on with the next one
AllChunks(chunker, parsed_documents, property_id, ingestion_id) ==
    Flatten([d \in 1..Len(parsed_documents) |->
                IF ChunkRaises(parsed_documents[d]) THEN <<>>
                ELSE ChunkDicts(chunk_document(chunker, parsed_documents[d],
                                               property_id, ingestion_id))])

\* errors after the loop over parsed_documents
ChunkErrors(parsed_documents) ==
    LET raised == SortedSeq({d \in 1..Len(parsed_documents) :
                                ChunkRaises(parsed_documents[d])})
    IN  [k \in 1..Len(raised) |->
            ErrorMsg("Failed to chunk",
                Or2(Or2(parsed_documents[raised[k]].source_url,
                        parsed_documents[raised[k]].source_filename),
                    <<"d", "o", "c", "u", "m", "e", "n", "t", "_">>
                        \o Digits(raised[k] - 1)))]

\* variant of the emit that reports errors before it looks at the chunks
ChunkEmitsErrorsFirst(e, all_chunks, errors) ==
    IF errors # <<>>
    THEN [error |-> {ErrorEvent(e.ingestion_id, e.property_id, "chunking", errors)}]
    ELSE IF all_chunks # <<>>
    THEN [embed |-> {[ingestion_id |-> e.ingestion_id,
                      property_id |-> e.property_id,
                      chunks |-> all_chunks,
                      overwrite_existing |-> e.overwrite_existing]}]
    ELSE <<>>

ChunkEmits(e, all_chunks, errors) ==
    IF all_chunks # <<>>
    THEN [embed |-> {[ingestion_id |-> e.ingestion_id,
                      property_id |-> e.property_id,
                      chunks |-> all_chunks,
                      overwrite_existing |-> e.overwrite_existing]}]
    ELSE IF errors # <<>>
    THEN [error |-> {ErrorEvent(e.ingestion_id, e.property_id, "chunking", errors)}]
    ELSE <<>>

\* the dicts the DocumentParse step emits always rebuild and chunk without
\* an exception; a dict from another emitter can hold a content of None
HandleChunk(e) ==
    \E all_chunks \in {AllChunks(ChunkingService(STEP_CHUNK_SIZE, STEP_CHUNK_OVERLAP),
                                 e.parsed_documents, e.property_id, e.ingestion_id)} :
    LET errors == ChunkErrors(e.parsed_documents)
        job == GetJob(e.ingestion_id)
    IN
    /\ pc = "pipeline"
    /\ e \in events.chunk
    /\ jobs' = UpdateJob(e.ingestion_id,
          [job EXCEPT
              !.documents_chunked = Len(e.parsed_documents) - Len(errors),
              !.errors = @ \o errors])
    /\ events' = Consume("chunk", e, ChunkEmits(e, all_chunks, errors))
    /\ UNCHANGED <<table, last_response, pc>>
    /\ UNCHANGED chunkerVars
    /\ UNCHANGED stepVars

\* ------------------------------------------------------------------------
\* DocumentEmbed (document_embed_step.py) and the LanceDB table
\* ------------------------------------------------------------------------

\* the set "sources" built from the chunks
ChunkSources(chunks) ==
    {<<"url", chunks[i].source_url>> :
        i \in {j \in 1..Len(chunks) : chunks[j].source_url # None}}
    \cup
    {<<"file", chunks[i].source_filename>> :
        i \in {j \in 1..Len(chunks) : chunks[j].source_filename # None}}

\* a row matches the filter of delete_by_property_and_source
RowMatches(row, property_id, source) ==
    /\ row.property_id = property_id
    /\ IF source[1] = "url" THEN row.source_url = source[2]
       ELSE row.source_filename = source[2]

\* the table after delete_by_property_and_source returned for each of sources
DeleteSources(rows, property_id, sources) ==
    SelectSeq(rows, LAMBDA row : \A source \in sources :
                                     ~RowMatches(row, property_id, source))

\* the documents handed to add_documents
EmbedDocuments(e) ==
    [i \in 1..Len(e.chunks) |->
        [id              |-> e.chunks[i].id,
         property_id     |-> e.property_id,
         content         |-> e.chunks[i].content,
         source_url      |-> e.chunks[i].source_url,
         source_filename |-> e.chunks[i].source_filename,
         ingestion_id    |-> e.ingestion_id]]

\* variant of _update_job_error that marks the job completed
UpdateJobErrorCompleted(ingestion_id, errors) ==
    UpdateJob(ingestion_id,
        [GetJob(ingestion_id) EXCEPT !.status = "completed", !.errors = @ \o errors])

\* _update_job_error
UpdateJobError(ingestion_id, errors) ==
    UpdateJob(ingestion_id,
        [GetJob(ingestion_id) EXCEPT !.status = "failed", !.errors = @ \o errors])

EmbedOutcomes == {"ok", "embed_raises", "store_raises"}

\* deleted: the sources whose delete returned before the loop ended (all of
\* them) or before table.delete raised (some of them); outcome: whether
\* embed_texts or add_documents raised
HandleEmbed(e, deleted, outcome) ==
    LET sources == ChunkSources(e.chunks)
        remaining == DeleteSources(table, e.property_id, deleted)
        documents == EmbedDocuments(e)
        failure == IF outcome = "embed_raises"
                   THEN ErrorEvent(e.ingestion_id, e.property_id, "embedding",
                            <<ErrorMsg("Failed to generate embeddings", None)>>)
                   ELSE ErrorEvent(e.ingestion_id, e.property_id, "storage",
                            <<ErrorMsg("Failed to store documents", None)>>)
        job == GetJob(e.ingestion_id)
    IN
    /\ pc = "pipeline"
    /\ e \in events.embed
    /\ deleted \subseteq sources
    /\ ~e.overwrite_existing => deleted = {}
    /\ IF outcome = "ok"
       THEN /\ table' = remaining \o documents
            /\ jobs' = UpdateJob(e.ingestion_id,
                  [job EXCEPT !.documents_embedded = Len(e.chunks),
                              !.chunks_created = Len(documents),
                              !.status = "completed"])
            /\ events' = Consume("embed", e,
                  [complete |->
                      {[ingestion_id |-> e.ingestion_id,
                        property_id |-> e.property_id,
                        chunks_created |-> Len(documents)]},
                   notification |->
                      {Notification("ingestion_complete", e.ingestion_id,
                          e.property_id,
                          IF job.notify_email # None
                          THEN <<job.notify_email>> ELSE None)}])
       ELSE /\ table' = remaining
            /\ jobs' = UpdateJobError(e.ingestion_id, failure.errors)
            /\ events' = Consume("embed", e, [error |-> {failure}])
    /\ UNCHANGED <<last_response, pc>>
    /\ UNCHANGED chunkerVars
    /\ UNCHANGED stepVars

\* ------------------------------------------------------------------------
\* IngestionError, IngestionComplete, SendNotification
\* ------------------------------------------------------------------------
HandleIngestionError(e) ==
    /\ pc = "pipeline"
    /\ e \in events.error
    /\ jobs' = UpdateJob(e.ingestion_id,
          [GetJob(e.ingestion_id) EXCEPT !.status = "failed",
                                         !.errors = @ \o e.errors,
                                         !.failed_stage = e.stage])
    /\ events' = Consume("error", e,
          IF GetJob(e.ingestion_id).notify_email # None
          THEN [notification |->
                   {Notification("ingestion_complete", e.ingestion_id,
                                 e.property_id,
                                 <<GetJob(e.ingestion_id).notify_email>>)}]
          ELSE <<>>)
    /\ UNCHANGED <<table, last_response, pc>>
    /\ UNCHANGED chunkerVars
    /\ UNCHANGED stepVars

\* logs statistics only
HandleIngestionComplete(e) ==
    /\ pc = "pipeline"
    /\ e \in events.complete
    /\ events' = Consume("complete", e, <<>>)
    /\ UNCHANGED <<jobs, table, last_response, pc>>
    /\ UNCHANGED chunkerVars
    /\ UNCHANGED stepVars

\* sends mail or skips; no state of the pipeline changes
SendNotification(e) ==
    /\ pc = "pipeline"
    /\ e \in events.notification
    /\ events' = Consume("notification", e, <<>>)
    /\ UNCHANGED <<jobs, table, last_response, pc>>
    /\ UNCHANGED chunkerVars
    /\ UNCHANGED stepVars

\* ------------------------------------------------------------------------
\* The pipeline as a state machine
\* ------------------------------------------------------------------------
\* what an earlier ingestion of the sources prior (none or one source), run to
\* completion without a failure, left in the table and in ingestion_jobs
EarlierChunks(prior) ==
    AllChunks(ChunkingService(STEP_CHUNK_SIZE, STEP_CHUNK_OVERLAP),
              [i \in 1..Len(prior) |->
                  ParseDocument(DiscoverSource(prior[i]), SectionsText)],
              PropertyId, EarlierId)

EarlierTable(chunks) ==
    EmbedDocuments([ingestion_id |-> EarlierId, property_id |-> PropertyId,
                    chunks |-> chunks])

EarlierJobs(prior, chunks) ==
    IF prior = <<>> THEN <<>>
    ELSE EarlierId :>
           [NewJob([property_id |-> PropertyId, sources |-> prior,
                    overwrite_existing |-> TRUE, notify_email |-> None], prior)
            EXCEPT !.status = "completed",
                   !.documents_discovered = Len(prior),
                   !.documents_parsed = Len(prior),
                   !.documents_chunked = Len(prior),
                   !.documents_embedded = Len(chunks),
                   !.chunks_created = Len(chunks)]

PipelineInit ==
    /\ args = [chunk_size |-> STEP_CHUNK_SIZE, chunk_overlap |-> STEP_CHUNK_OVERLAP]
    /\ document = ParsedDocument(None, <<>>, None, None)
    /\ service = NoService
    /\ result = <<>>
    /\ pc = "pipeline"
    /\ \E prior \in {<<>>, <<SourceUrl>>, <<SourceFile>>} :
          \E chunks \in {EarlierChunks(prior)} :
              /\ jobs = EarlierJobs(prior, chunks)
              /\ table = EarlierTable(chunks)
    /\ events = NoEvents
    /\ last_response = NoResponse
    /\ calls = NoCalls
    /\ returned = {}
    /\ fetched = NoFetched
    /\ request = NoRequest
    /\ embedding = NoEmbedding
    /\ search = NoSearch

StartIngestion ==
    \E body \in Bodies :
        \/ StartIngestionRejected(body)
        \/ \E ingestion_id \in IngestionIds : StartIngestionAccepted(body, ingestion_id)

Discovery ==
    \E e \in events.discovery :
        \E outcome \in [1..Len(e.sources) -> {"ok", "raise"}] :
            HandleDiscovery(e, outcome)

Parse ==
    \E e \in events.parse :
        \E outcome \in [1..Len(e.documents) ->
                           {<<>>} \cup {<<sections>> : sections \in ParsedShapes}] :
            HandleParse(e, outcome)

Chunk == \E e \in events.chunk : HandleChunk(e)

Embed ==
    \E e \in events.embed :
        \E deleted \in SUBSET ChunkSources(e.chunks), outcome \in EmbedOutcomes :
            HandleEmbed(e, deleted, outcome)

IngestionError == \E e \in events.error : HandleIngestionError(e)

IngestionComplete == \E e \in events.complete : HandleIngestionComplete(e)

Notify == \E e \in events.notification : SendNotification(e)

\* the event steps: a handler runs on an emitted event
Deliver ==
    \/ Discovery
    \/ Parse
    \/ Chunk
    \/ Embed
    \/ IngestionError
    \/ IngestionComplete
    \/ Notify

PipelineNext == StartIngestion \/ Deliver

\* Motia delivers every emitted event to its subscriber, so a handler whose
\* event waits eventually runs. A document-chunk event waits exactly when
\* events.chunk is not empty, which states the weak fairness of Chunk without
\* the enabledness of the whole chunker.
PipelineFairness ==
    /\ WF_vars(Discovery)
    /\ WF_vars(Parse)
    /\ ([]<>(events.chunk = {}) \/ []<><<Chunk>>_vars)
    /\ WF_vars(Embed)
    /\ WF_vars(IngestionError)
    /\ WF_vars(IngestionComplete)
    /\ WF_vars(Notify)

Pipeline == PipelineInit /\ [][PipelineNext]_vars /\ PipelineFairness

\* ------------------------------------------------------------------------
\* Properties of the pipeline
\* ------------------------------------------------------------------------

\* C3: the chunks of one document-embed payload, which one DocumentChunk
\* invocation built for one (property_id, ingestion_id), have pairwise
\* distinct ids.
C3_EmbedPayloadIdsUnique ==
    \A e \in events.embed :
        \A i, j \in 1..Len(e.chunks) :
            e.chunks[i].id = e.chunks[j].id => i = j

\* C6: when DocumentEmbed runs with overwrite_existing = true and stores its
\* chunks, the table afterwards holds no row of another ingestion with the
\* same property_id and one of the stored chunks' sources.
C6_StoreSupersedes ==
    [][\A e \in events.embed :
          \A deleted \in SUBSET ChunkSources(e.chunks) :
              (HandleEmbed(e, deleted, "ok") /\ e.overwrite_existing)
              => \A r \in 1..Len(table') :
                     \A source \in ChunkSources(e.chunks) :
                         RowMatches(table'[r], e.property_id, source)
                         => table'[r].ingestion_id = e.ingestion_id]_vars

\* the job's errors list holds an error message of the stage
HasStageError(ingestion_id, text) ==
    /\ ingestion_id \in DOMAIN jobs
    /\ \E k \in 1..Len(jobs[ingestion_id].errors) :
           jobs[ingestion_id].errors[k].text = text

Failed(ingestion_id) ==
    /\ ingestion_id \in DOMAIN jobs
    /\ jobs[ingestion_id].status = "failed"

\* no event of the job waits for its handler
AtRest(ingestion_id) ==
    \A topic \in {"discovery", "parse", "chunk", "embed", "error"} :
        \A e \in events[topic] : e.ingestion_id # ingestion_id

StageErrorTexts ==
    {"Failed to discover source", "Failed to parse",
     "Failed to generate embeddings", "Failed to store documents"}

\* C7 as stated, in its finite form: once all events of a job are handled, a
\* job whose errors list holds an error of the discovery, parsing, embedding
\* or storage stage has status "failed".
C7_StageErrorMeansFailed ==
    \A ingestion_id \in DOMAIN jobs :
        \A text \in StageErrorTexts :
            (AtRest(ingestion_id) /\ HasStageError(ingestion_id, text))
            => Failed(ingestion_id)

\* the stage recorded an error and handed nothing on: discovery found no
\* document, parsing parsed no document, or embed_texts or add_documents raised
StageFailed(ingestion_id, text) ==
    /\ HasStageError(ingestion_id, text)
    /\ text = "Failed to discover source"
           => jobs[ingestion_id].documents_discovered = 0
    /\ text = "Failed to parse"
           => jobs[ingestion_id].documents_parsed = 0

\* C7, amended: if discovery fails for every source, parsing fails for every
\* document, or the embedding or storage call fails, the job's status
\* eventually becomes "failed" and its errors list holds the stage's errors.
C7_FailedStageLeadsToFailed ==
    \A ingestion_id \in IngestionIds :
        \A text \in StageErrorTexts :
            StageFailed(ingestion_id, text)
            ~> (Failed(ingestion_id) /\ HasStageError(ingestion_id, text))

C7_Witness ==
    \E ingestion_id \in IngestionIds :
        /\ Failed(ingestion_id)
        /\ jobs[ingestion_id].failed_stage = "parsing"
        /\ StageFailed(ingestion_id, "Failed to parse")
        /\ AtRest(ingestion_id)

\* ------------------------------------------------------------------------
\* The title-prefix rule on its own: _format_chunk_content applied to a title
\* and a content, and then again to its own output
\* ------------------------------------------------------------------------

\* titles around the length of the window the rule searches
FormatTitles ==
    Titles \cup {TitleOtherCase}
           \cup {Rep("T", n) : n \in (TITLE_WINDOW - 2)..(TITLE_WINDOW + 1)}

FormatContents ==
    {<<>>, <<"c", "d">>, BlockShort, BlockWord \o BlockShort,
     BlockLong \o BlockShort, Rep("T", TITLE_WINDOW - 1),
     Rep("T", TITLE_WINDOW + 1), <<"[", "A", "b", "]", "\n", "c", "d">>,
     Rep("x", TITLE_WINDOW - 2) \o <<"A", "b">>,
     Rep("x", TITLE_WINDOW - 1) \o <<"A", "b">>}

\* the title and the content travel as the one section of a document
FormatInit ==
    /\ args = [chunk_size |-> STEP_CHUNK_SIZE, chunk_overlap |-> STEP_CHUNK_OVERLAP]
    /\ service = ChunkingService(STEP_CHUNK_SIZE, STEP_CHUNK_OVERLAP)
    /\ \E t \in FormatTitles, c \in FormatContents :
          document = ParsedDocument(None, <<ParsedSection(t, c, 1, FALSE)>>, None, None)
    /\ result = <<>>
    /\ pc = "format"
    /\ jobs = <<>>
    /\ events = NoEvents
    /\ table = <<>>
    /\ last_response = NoResponse
    /\ calls = NoCalls
    /\ returned = {}
    /\ fetched = NoFetched
    /\ request = NoRequest
    /\ embedding = NoEmbedding
    /\ search = NoSearch

\* once = self._format_chunk_content(section.title, content)
FormatOnce ==
    /\ pc = "format"
    /\ result' = <<format_chunk_content(document.sections[1].title,
                                        document.sections[1].content)>>
    /\ pc' = "formatted_once"
    /\ UNCHANGED <<args, service, document, callVars, parserVars>>
    /\ UNCHANGED pipelineVars

\* twice = self._format_chunk_content(section.title, once)
FormatAgain ==
    /\ pc = "formatted_once"
    /\ result' = Append(result, format_chunk_content(document.sections[1].title,
                                                     result[1]))
    /\ pc' = "formatted_twice"
    /\ UNCHANGED <<args, service, document, callVars, parserVars>>
    /\ UNCHANGED pipelineVars

FormatNext == FormatOnce \/ FormatAgain

FormatSpec == FormatInit /\ [][FormatNext]_vars

\* C16: applying the title-prefix rule to its own output changes nothing, for
\* every title and every content.
C16_FormatIdempotent ==
    pc = "formatted_twice" => result[2] = result[1]

\* the rule is idempotent for titles shorter than the window it searches
C16_IdempotentBelowWindow ==
    (pc = "formatted_twice" /\ Len(document.sections[1].title) < TITLE_WINDOW)
        => result[2] = result[1]

\* a title as long as the window is prefixed a second time
C16_PrefixedTwice ==
    /\ pc = "formatted_twice"
    /\ Len(document.sections[1].title) = TITLE_WINDOW
    /\ result[2] = <<"[">> \o document.sections[1].title \o <<"]", "\n">> \o result[1]

\* ------------------------------------------------------------------------
\* Several invocations of chunk_document on one ChunkingService, one after
\* another and interleaved.  An invocation advances by one iteration of its
\* loop over document.sections at a time; what it keeps between iterations
\* are its locals (chunks, chunk_counter), what it reads of the service are
\* chunk_size and chunk_overlap.
\* ------------------------------------------------------------------------
\* invocations made on the service, all callers together
MaxCalls == 3

CallArgs ==
    {[chunk_size |-> 50, chunk_overlap |-> 10],
     [chunk_size |-> STEP_CHUNK_SIZE, chunk_overlap |-> STEP_CHUNK_OVERLAP]}

CallDocuments ==
    {ParsedDocument(<<"d">>,
                    <<ParsedSection(<<"Z", "t">>, l, 2, TRUE),
                      ParsedSection(<<"A", "b">>, c, 1, FALSE)>>, <<"u">>, None) :
        <<l, c>> \in {<<<<"c", "d">>, BlockShort>>,
                      <<<<" ">>, BlockSentence \o BlockShort>>,
                      <<BlockWord \o BlockWord, BlockLong \o BlockWord>>}}

CallsInit ==
    /\ args \in CallArgs
    /\ service = ChunkingService(args.chunk_size, args.chunk_overlap)
    /\ document = ParsedDocument(None, <<>>, None, None)
    /\ result = <<>>
    /\ pc = "calls"
    /\ calls = NoCalls
    /\ returned = {}
    /\ fetched = NoFetched
    /\ request = NoRequest
    /\ embedding = NoEmbedding
    /\ search = NoSearch
    /\ jobs = <<>>
    /\ events = NoEvents
    /\ table = <<>>
    /\ last_response = NoResponse

\* variant of the counter's start that keeps what the caller's previous
\* invocation left
FreshCounterKept(previous) == previous

\* chunk_counter = 0
FreshCounter(previous) == 0

\* variant of start_index that reads the first caller's counter
StartIndexShared(t) == calls[1].chunk_counter

\* start_index=chunk_counter
StartIndex(t) == calls[t].chunk_counter

\* the documents of the other invocations in flight
InFlight(t) ==
    {calls[u].document : u \in {v \in Callers \ {t} : calls[v].pc = "sections"}}

\* invocations made so far
TotalMade == calls[1].made + calls[2].made

\* chunk_document(document, property_id, ingestion_id): entry
Invoke(t) ==
    /\ pc = "calls"
    /\ calls[t].pc = "idle"
    /\ TotalMade < MaxCalls
    /\ \E d \in CallDocuments :
          calls' = [calls EXCEPT ![t] =
                        [pc |-> "sections", document |-> d, k |-> 1,
                         chunks |-> <<>>,
                         chunk_counter |-> FreshCounter(@.chunk_counter),
                         made |-> @.made + 1]]
    /\ UNCHANGED <<args, service, document, result, pc, returned, fetched>>
    /\ UNCHANGED pipelineVars

\* one iteration of "for section in document.sections"
SectionStep(t) ==
    /\ pc = "calls"
    /\ calls[t].pc = "sections"
    /\ calls[t].k <= Len(calls[t].document.sections)
    /\ \E section_chunks \in
            {chunk_section(service, calls[t].document.sections[calls[t].k],
                           calls[t].document, PropertyId, IngestionId,
                           StartIndex(t))} :
          calls' = [calls EXCEPT ![t].chunks = @ \o section_chunks,
                                 ![t].chunk_counter = @ + Len(section_chunks),
                                 ![t].k = @ + 1]
    /\ UNCHANGED <<args, service, document, result, pc, returned, fetched>>
    /\ UNCHANGED pipelineVars

\* the loop that sets total_chunks, and "return chunks"
Return(t) ==
    /\ pc = "calls"
    /\ calls[t].pc = "sections"
    /\ calls[t].k > Len(calls[t].document.sections)
    /\ \E chunks \in {[i \in 1..Len(calls[t].chunks) |->
                        [calls[t].chunks[i] EXCEPT
                            !.total_chunks = Len(calls[t].chunks)]]} :
          /\ calls' = [calls EXCEPT ![t].chunks = chunks, ![t].pc = "idle"]
          /\ returned' = returned \cup
                 {[document |-> calls[t].document, chunks |-> chunks,
                   during |-> InFlight(t)]}
    /\ UNCHANGED <<args, service, document, result, pc, fetched>>
    /\ UNCHANGED pipelineVars

CallsNext == \E t \in Callers : Invoke(t) \/ SectionStep(t) \/ Return(t)

Calls == CallsInit /\ [][CallsNext]_vars

\* C18: two invocations with the same document and the same service return
\* equal chunk sequences, whatever was invoked on the service before.
C18_Deterministic ==
    \A r1, r2 \in returned :
        r1.document = r2.document => r1.chunks = r2.chunks

\* the second caller's second invocation returned several chunks for the
\* document the first caller had got chunks for, after its first invocation
\* returned the chunks of another document
C18_Witness ==
    /\ calls[1].pc = "idle" /\ calls[1].made = 1
    /\ calls[2].pc = "idle" /\ calls[2].made = 2
    /\ calls[1].document = calls[2].document
    /\ Len(calls[2].chunks) > 2
    /\ calls[1].chunks = calls[2].chunks
    /\ \E r \in returned :
          /\ r.document # calls[2].document
          /\ r.during = {}
          /\ Len(r.chunks) >= 2

\* C20: interleaved invocations on one service each return what the
\* invocation returns on its own, and leave chunk_size and chunk_overlap of
\* the service as constructed.
C20_SafeWhenInterleaved ==
    /\ \A r \in returned :
          r.chunks = chunk_document(service, r.document, PropertyId, IngestionId)
    /\ pc = "calls" =>
          service = ChunkingService(args.chunk_size, args.chunk_overlap)

\* an invocation returned several chunks while an invocation on another
\* document was part-way through its sections
C20_Witness ==
    \E r \in returned :
        /\ r.during # {}
        /\ r.document \notin r.during
        /\ Len(r.chunks) > 2
        /\ \E u \in Callers :
              /\ calls[u].pc = "sections"
              /\ calls[u].k = 2
              /\ calls[u].chunk_counter > 1

\* ------------------------------------------------------------------------
\* DocumentParser: from fetched content to sections.  A text is held as its
\* lines (text.split("\n")); a Word document as its paragraphs and an HTML
\* body as the sibling elements of its main content, each with its text and
\* its heading level (0: not a heading).
\* ------------------------------------------------------------------------
MaxLines == 3

CRITICAL_KEYWORDS ==
    {<<"s", "a", "f", "e", "t", "y">>,
     <<"e", "m", "e", "r", "g", "e", "n", "c", "y">>,
     <<"f", "i", "r", "e">>,
     <<"e", "v", "a", "c", "u", "a", "t", "i", "o", "n">>,
     <<"r", "u", "l", "e", "s">>,
     <<"h", "o", "u", "s", "e", " ", "r", "u", "l", "e", "s">>,
     <<"p", "r", "o", "h", "i", "b", "i", "t", "e", "d">>,
     <<"n", "o", "t", " ", "a", "l", "l", "o", "w", "e", "d">>,
     <<"f", "o", "r", "b", "i", "d", "d", "e", "n">>,
     <<"w", "a", "r", "n", "i", "n", "g">>,
     <<"c", "a", "u", "t", "i", "o", "n">>,
     <<"i", "m", "p", "o", "r", "t", "a", "n", "t">>,
     <<"m", "u", "s", "t">>,
     <<"r", "e", "q", "u", "i", "r", "e", "d">>,
     <<"c", "h", "e", "c", "k", "o", "u", "t">>,
     <<"c", "h", "e", "c", "k", "-", "o", "u", "t">>,
     <<"c", "h", "e", "c", "k", " ", "o", "u", "t">>,
     <<"c", "h", "e", "c", "k", "i", "n">>,
     <<"c", "h", "e", "c", "k", "-", "i", "n">>,
     <<"c", "h", "e", "c", "k", " ", "i", "n">>,
     <<"l", "a", "t", "e", " ", "c", "h", "e", "c", "k", "o", "u", "t">>,
     <<"e", "a", "r", "l", "y", " ", "c", "h", "e", "c", "k", "i", "n">>,
     <<"s", "e", "c", "u", "r", "i", "t", "y">>,
     <<"a", "l", "a", "r", "m">>,
     <<"c", "o", "d", "e">>,
     <<"l", "o", "c", "k">>,
     <<"k", "e", "y">>,
     <<"l", "o", "c", "k", "b", "o", "x">>,
     <<"k", "e", "y", "p", "a", "d">>,
     <<"c", "o", "n", "t", "a", "c", "t">>,
     <<"h", "o", "s", "t", " ", "c", "o", "n", "t", "a", "c", "t">>,
     <<"e", "m", "e", "r", "g", "e", "n", "c", "y", " ", "c", "o", "n", "t", "a", "c", "t">>,
     <<"9", "1", "1">>,
     <<"p", "o", "l", "i", "c", "e">>,
     <<"h", "o", "s", "p", "i", "t", "a", "l">>,
     <<"m", "e", "d", "i", "c", "a", "l">>,
     <<"f", "i", "r", "s", "t", " ", "a", "i", "d">>,
     <<"p", "o", "i", "s", "o", "n">>,
     <<"g", "a", "s", " ", "l", "e", "a", "k">>}

\* DocumentParser._is_critical_section
is_critical_section(text) ==
    LET text_lower == Lower(text)
    IN  \E keyword \in CRITICAL_KEYWORDS : Contains(text_lower, keyword)

NL == <<"\n">>

\* sep.join(texts)
RECURSIVE Join(_, _)
Join(texts, sep) ==
    IF texts = <<>> THEN <<>>
    ELSE IF Len(texts) = 1 THEN texts[1]
    ELSE texts[1] \o sep \o Join(Tail(texts), sep)

\* the members of seq that are not empty, in order
NonEmpty(seq) ==
    LET keep == SortedSeq({i \in 1..Len(seq) : seq[i] # <<>>})
    IN  [k \in 1..Len(keep) |-> seq[keep[k]]]

\* text.split(sep) for a separator of two characters
RECURSIVE Split2(_, _)
Split2(text, sep) ==
    LET at == {i \in 1..(Len(text) - 1) : text[i] = sep[1] /\ text[i + 1] = sep[2]}
    IN  IF at = {} THEN <<text>>
        ELSE LET i == CHOOSE a \in at : \A b \in at : a <= b
             IN  <<SubSeq(text, 1, i - 1)>> \o Split2(SubSeq(text, i + 2, Len(text)), sep)

\* str.rstrip(":")
RECURSIVE RStripColon(_)
RStripColon(line) ==
    IF line # <<>> /\ line[Len(line)] = ":"
    THEN RStripColon(SubSeq(line, 1, Len(line) - 1))
    ELSE line

IsUpperLetter(c) == \E k \in 1..Len(UpperLetters) : UpperLetters[k] = c
IsLowerLetter(c) == \E k \in 1..Len(LowerLetters) : LowerLetters[k] = c
IsDigit(c) == c \in {"0", "1", "2", "3", "4", "5", "6", "7", "8", "9"}

\* str.isupper()
IsUpper(line) ==
    /\ \E i \in 1..Len(line) : IsUpperLetter(line[i])
    /\ \A i \in 1..Len(line) : ~IsLowerLetter(line[i])

\* re.match(r'^\d+[\.\)]\s+[A-Z]', line)
IsNumbered(line) ==
    \E n \in 1..Len(line), m \in 1..Len(line) :
        /\ n + 1 + m + 1 <= Len(line)
        /\ \A j \in 1..n : IsDigit(line[j])
        /\ line[n + 1] \in {".", ")"}
        /\ \A j \in (n + 2)..(n + 1 + m) : IsSpace(line[j])
        /\ IsUpperLetter(line[n + 2 + m])

\* re.match(r'^[A-Z][A-Za-z\s]+:$', line)
IsLabel(line) ==
    /\ Len(line) >= 3
    /\ IsUpperLetter(line[1])
    /\ line[Len(line)] = ":"
    /\ \A j \in 2..(Len(line) - 1) :
          IsUpperLetter(line[j]) \/ IsLowerLetter(line[j]) \/ IsSpace(line[j])

\* is_header of _extract_sections_from_text
IsHeader(line) ==
    \/ IsUpper(line) /\ Len(line) > 3 /\ Len(line) < 100
    \/ line[Len(line)] = ":" /\ Len(line) < 80
    \/ IsNumbered(line)
    \/ IsLabel(line)

GENERAL == <<"G", "e", "n", "e", "r", "a", "l">>
CONTENT == <<"C", "o", "n", "t", "e", "n", "t">>
ELLIPSIS == <<".", ".", ".">>
PARA_MIN == 50

\* a section whose criticality is read off its title
TitledSection(title, content, level) ==
    ParsedSection(title, content, level, is_critical_section(title))

\* _extract_sections_from_text: the loop over the lines and "Add last section"
RECURSIVE ExtractLoop(_, _, _, _, _)
ExtractLoop(lines, i, sections, current_section, current_content) ==
    IF i > Len(lines)
    THEN IF current_content # <<>>
         THEN Append(sections,
                     TitledSection(current_section, Join(current_content, NL), 1))
         ELSE sections
    ELSE LET line == Strip(lines[i]) IN
         IF line = <<>>
         THEN ExtractLoop(lines, i + 1, sections, current_section, current_content)
         ELSE IF IsHeader(line) /\ current_content # <<>>
         THEN ExtractLoop(lines, i + 1,
                  Append(sections,
                         TitledSection(current_section, Join(current_content, NL), 1)),
                  RStripColon(line), <<>>)
         ELSE ExtractLoop(lines, i + 1, sections, current_section,
                          Append(current_content, line))

\* para.split("\n")[0]
FirstLine(para) ==
    IF Find(para, "\n") < 0 THEN para ELSE SubSeq(para, 1, Find(para, "\n"))

\* _extract_sections_from_text: one section per paragraph of more than 50
\* characters, critical when the paragraph holds a keyword
ParagraphSections(text) ==
    LET paragraphs == Split2(text, <<"\n", "\n">>)
        paras == [k \in 1..Len(paragraphs) |-> Strip(paragraphs[k])]
        keep == SortedSeq({k \in 1..Len(paras) : Len(paras[k]) > PARA_MIN})
    IN  [j \in 1..Len(keep) |->
            LET para == paras[keep[j]] IN
            ParsedSection(IF Len(FirstLine(para)) > PARA_MIN
                          THEN Take(FirstLine(para), PARA_MIN) \o ELLIPSIS
                          ELSE FirstLine(para),
                          para, 1, is_critical_section(para))]

\* the "General" test and the single-section fallback
ExtractFinish(lines, sections) ==
    LET broken == IF Len(sections) = 1 /\ sections[1].title = GENERAL
                  THEN ParagraphSections(Join(lines, NL))
                  ELSE sections
    IN  IF broken # <<>> THEN broken
        ELSE <<ParsedSection(CONTENT, Join(lines, NL), 1, FALSE)>>

\* DocumentParser._extract_sections_from_text
extract_sections_from_text(lines) ==
    ExtractFinish(lines, ExtractLoop(lines, 1, <<>>, GENERAL, <<>>))

\* number of "#" a line starts with
HashCount(line) ==
    Cardinality({n \in 1..Len(line) : \A j \in 1..n : line[j] = "#"})

\* the line matches ^(#{1,6})\s+(.+)$
IsMarkdownHeading(line) ==
    /\ HashCount(line) \in 1..6
    /\ Len(line) >= HashCount(line) + 2
    /\ IsSpace(line[HashCount(line) + 1])

\* match.group(2).strip()
HeadingText(line) == Strip(SubSeq(line, HashCount(line) + 1, Len(line)))

\* _parse_markdown: the sections under the headings
MarkdownSections(lines) ==
    LET heads == SortedSeq({i \in 1..Len(lines) : IsMarkdownHeading(lines[i])})
        upto(k) == IF k < Len(heads) THEN heads[k + 1] - 1 ELSE Len(lines)
        content(k) == Strip(Join(SubSeq(lines, heads[k] + 1, upto(k)), NL))
        keep == SortedSeq({k \in 1..Len(heads) : content(k) # <<>>})
    IN  [j \in 1..Len(keep) |->
            TitledSection(HeadingText(lines[heads[keep[j]]]), content(keep[j]),
                          HashCount(lines[heads[keep[j]]]))]

ParserFile == <<"g">>
UNTITLED_SHORT == <<"U", "n", "t", "i", "t", "l", "e", "d">>

\* the title _parse_markdown takes from the first line matching ^#\s+(.+)$
MarkdownTitle(lines, filename) ==
    LET h1 == {i \in 1..Len(lines) :
                  /\ Len(lines[i]) >= 3
                  /\ lines[i][1] = "#"
                  /\ IsSpace(lines[i][2])}
    IN  IF h1 = {} THEN Or2(filename, UNTITLED_SHORT)
        ELSE LET i == CHOOSE a \in h1 : \A b \in h1 : a <= b
             IN  Strip(SubSeq(lines[i], 2, Len(lines[i])))

\* DocumentParser._parse_markdown
parse_markdown(lines, url, filename) ==
    LET sections == MarkdownSections(lines)
    IN  ParsedDocument(MarkdownTitle(lines, filename),
                       IF sections # <<>> THEN sections
                       ELSE extract_sections_from_text(lines),
                       url, filename)

\* DocumentParser._parse_plain_text
parse_plain_text(lines, url, filename) ==
    ParsedDocument(Or2(Or2(filename, Basename(url)), UNTITLED),
                   extract_sections_from_text(lines), url, filename)

\* _parse_docx: the loop over doc.paragraphs and "Don't forget last section";
\* current_section <<>> stands for None (a heading is never empty here)
RECURSIVE DocxLoop(_, _, _, _, _)
DocxLoop(paragraphs, i, sections, current_section, current_content) ==
    IF i > Len(paragraphs)
    THEN IF current_section # None
         THEN Append(sections,
                     TitledSection(current_section, Join(current_content, NL), 1))
         ELSE sections
    ELSE LET text == Strip(paragraphs[i].text) IN
         IF text = <<>>
         THEN DocxLoop(paragraphs, i + 1, sections, current_section, current_content)
         ELSE IF paragraphs[i].level > 0
         THEN DocxLoop(paragraphs, i + 1,
                  IF current_section # None
                  THEN Append(sections,
                              TitledSection(current_section,
                                            Join(current_content, NL), 1))
                  ELSE sections,
                  text, <<>>)
         ELSE DocxLoop(paragraphs, i + 1, sections, current_section,
                       Append(current_content, text))

\* DocumentParser._parse_docx, for a document without a title property
parse_docx(paragraphs, url, filename) ==
    LET sections == DocxLoop(paragraphs, 1, <<>>, None, <<>>)
    IN  ParsedDocument(Or2(Or2(filename, Basename(url)), UNTITLED),
                       IF sections # <<>> THEN sections
                       ELSE extract_sections_from_text(
                                [i \in 1..Len(paragraphs) |-> paragraphs[i].text]),
                       url, filename)

\* _parse_html: the sections under the headings
HtmlSections(elements) ==
    LET heads == SortedSeq({i \in 1..Len(elements) : elements[i].level > 0})
        upto(k) == IF k < Len(heads) THEN heads[k + 1] - 1 ELSE Len(elements)
        parts(k) == NonEmpty([i \in 1..(upto(k) - heads[k]) |->
                                 Strip(elements[heads[k] + i].text)])
        keep == SortedSeq({k \in 1..Len(heads) : parts(k) # <<>>})
    IN  [j \in 1..Len(keep) |->
            TitledSection(Strip(elements[heads[keep[j]]].text),
                          Join(parts(keep[j]), NL),
                          elements[heads[keep[j]]].level)]

\* DocumentParser._parse_html, for a page without a title element
parse_html(elements, url, filename) ==
    LET sections == HtmlSections(elements)
    IN  ParsedDocument(Or2(filename, UNTITLED_SHORT),
                       IF sections # <<>> THEN sections
                       ELSE extract_sections_from_text(
                                NonEmpty([i \in 1..Len(elements) |->
                                             Strip(elements[i].text)])),
                       url, filename)

\* ---- explored contents ----
LinePool     == <<"#", " ", "P", "o", "o", "l">>
LineFire     == <<"#", "#", " ", "F", "i", "r", "e">>
LineCode     == <<"D", "o", "o", "r", " ", "c", "o", "d", "e", " ", "1", "2">>
LineSwim     == <<"S", "w", "i", "m">>
LineLabel    == <<"P", "O", "O", "L", ":">>
LineAlarm    == <<"A", "l", "a", "r", "m", " ">> \o Rep("x", PARA_MIN)
TextLines == {LinePool, LineFire, LineCode, LineSwim, LineLabel, LineAlarm, <<>>}

Plain(line) == [text |-> line, level |-> 0]

Elements ==
    {[text |-> <<"P", "o", "o", "l">>, level |-> 1], [text |-> <<"F", "i", "r", "e">>, level |-> 2],
     Plain(LineCode), Plain(LineSwim), Plain(<<" ">>)}

\* all sequences of at most n members of S
RECURSIVE SeqsUpTo(_, _)
SeqsUpTo(S, n) ==
    IF n = 0 THEN {<<>>}
    ELSE LET T == SeqsUpTo(S, n - 1) IN T \cup {Append(t, x) : t \in T, x \in S}

Fetched ==
    {[kind |-> k, parts |-> [i \in 1..Len(ls) |-> Plain(ls[i])]] :
        k \in {"markdown", "text"}, ls \in SeqsUpTo(TextLines, MaxLines)}
    \cup
    {[kind |-> k, parts |-> es] :
        k \in {"docx", "html"}, es \in SeqsUpTo(Elements, MaxLines)}

Texts_of(parts) == [i \in 1..Len(parts) |-> parts[i].text]

ParserInit ==
    /\ fetched \in Fetched
    /\ request = NoRequest
    /\ embedding = NoEmbedding
    /\ search = NoSearch
    /\ args = [chunk_size |-> STEP_CHUNK_SIZE, chunk_overlap |-> STEP_CHUNK_OVERLAP]
    /\ service = NoService
    /\ document = ParsedDocument(None, <<>>, None, None)
    /\ result = <<>>
    /\ pc = "fetched"
    /\ calls = NoCalls
    /\ returned = {}
    /\ jobs = <<>>
    /\ events = NoEvents
    /\ table = <<>>
    /\ last_response = NoResponse

\* parse_file: return self._parse_markdown(text, "", filename, ...)
ParseMarkdown ==
    /\ pc = "fetched"
    /\ fetched.kind = "markdown"
    /\ document' = parse_markdown(Texts_of(fetched.parts), None, ParserFile)
    /\ pc' = "parsed"
    /\ UNCHANGED <<args, service, result, callVars, parserVars>>
    /\ UNCHANGED pipelineVars

\* parse_file: return self._parse_plain_text(text, "", filename, ...)
ParsePlainText ==
    /\ pc = "fetched"
    /\ fetched.kind = "text"
    /\ document' = parse_plain_text(Texts_of(fetched.parts), None, ParserFile)
    /\ pc' = "parsed"
    /\ UNCHANGED <<args, service, result, callVars, parserVars>>
    /\ UNCHANGED pipelineVars

\* parse_file: return await self._parse_docx(content, "", filename, ...)
ParseDocx ==
    /\ pc = "fetched"
    /\ fetched.kind = "docx"
    /\ document' = parse_docx(fetched.parts, None, ParserFile)
    /\ pc' = "parsed"
    /\ UNCHANGED <<args, service, result, callVars, parserVars>>
    /\ UNCHANGED pipelineVars

\* parse_file: return self._parse_html(text, "", filename, ...)
ParseHtml ==
    /\ pc = "fetched"
    /\ fetched.kind = "html"
    /\ document' = parse_html(fetched.parts, None, ParserFile)
    /\ pc' = "parsed"
    /\ UNCHANGED <<args, service, result, callVars, parserVars>>
    /\ UNCHANGED pipelineVars

ParserNext == ParseMarkdown \/ ParsePlainText \/ ParseDocx \/ ParseHtml

Parser == ParserInit /\ [][ParserNext]_vars

C19_BodyKeywordIgnored ==
    /\ pc = "parsed"
    /\ fetched.kind = "markdown"
    /\ \E k \in 1..Len(document.sections) :
          /\ ~document.sections[k].is_critical
          /\ ~is_critical_section(document.sections[k].title)
          /\ is_critical_section(document.sections[k].content)

\* the single-section fallback for a text that holds a keyword
C19_FallbackNeverCritical ==
    /\ pc = "parsed"
    /\ fetched.kind = "text"
    /\ Len(document.sections) = 1
    /\ document.sections[1].title = CONTENT
    /\ ~document.sections[1].is_critical
    /\ is_critical_section(document.sections[1].content)

\* a critical section is always one whose title or body holds a keyword
C19_CriticalOnlyWithKeyword ==
    pc = "parsed" =>
        \A k \in 1..Len(document.sections) :
            document.sections[k].is_critical
                => \/ is_critical_section(document.sections[k].title)
                   \/ is_critical_section(document.sections[k].content)

\* ------------------------------------------------------------------------
\* The DocumentChunk step on its own: one document-chunk event, from any
\* emitter, delivered to the handler
\* ------------------------------------------------------------------------
MaxDocs == 3

StepDocuments ==
    {ParsedDocument(<<"d">>, <<ParsedSection(<<"A", "b">>, <<"c", "d">>, 1, FALSE)>>,
                    <<"u">>, None),
     ParsedDocument(<<"d">>, <<ParsedSection(<<"A", "b">>, <<" ">>, 1, FALSE)>>,
                    <<"v">>, None),
     ParsedDocument(<<"d">>,
                    <<ParsedSection(<<"A", "b">>,
                          BlockLong \o BlockLong \o BlockLong \o BlockLong, 1, TRUE)>>,
                    None, <<"g">>),
     ParsedDocument(<<"d">>, <<ParsedSection(<<"A", "b">>, PyNone, 1, FALSE)>>,
                    <<"w">>, None),
     ParsedDocument(<<"d">>,
                    <<ParsedSection(<<"A", "b">>, <<"c", "d">>, 1, FALSE),
                      ParsedSection(<<"Z", "t">>, PyNone, 1, FALSE)>>,
                    None, None)}

\* all sequences of at most n members of S
RECURSIVE ListsUpTo(_, _)
ListsUpTo(S, n) ==
    IF n = 0 THEN {<<>>}
    ELSE LET T == ListsUpTo(S, n - 1) IN T \cup {Append(t, x) : t \in T, x \in S}

StepJob ==
    [NewJob([property_id |-> PropertyId, notify_email |-> None,
             overwrite_existing |-> TRUE], <<SourceUrl>>)
        EXCEPT !.documents_discovered = 1, !.documents_parsed = 1]

ChunkStepInit ==
    /\ args = [chunk_size |-> STEP_CHUNK_SIZE, chunk_overlap |-> STEP_CHUNK_OVERLAP]
    /\ service = NoService
    /\ document = ParsedDocument(None, <<>>, None, None)
    /\ result = <<>>
    /\ pc = "pipeline"
    /\ calls = NoCalls
    /\ returned = {}
    /\ fetched = NoFetched
    /\ request = NoRequest
    /\ embedding = NoEmbedding
    /\ search = NoSearch
    /\ jobs \in {<<>>, [i \in IngestionIds |-> StepJob]}
    /\ \E docs \in ListsUpTo(StepDocuments, MaxDocs), overwrite \in BOOLEAN :
          events = [NoEvents EXCEPT !.chunk =
                       {[ingestion_id |-> IngestionId, property_id |-> PropertyId,
                         parsed_documents |-> docs,
                         overwrite_existing |-> overwrite]}]
    /\ table = <<>>
    /\ last_response = NoResponse

ChunkStep == ChunkStepInit /\ [][Chunk]_vars

\* the chunk dicts of the documents of docs that chunk without raising, in
\* the order of docs
RECURSIVE ChunksOfGood(_, _)
ChunksOfGood(docs, e) ==
    IF docs = <<>> THEN <<>>
    ELSE (IF \E k \in 1..Len(docs[1].sections) : docs[1].sections[k].content = PyNone
          THEN <<>>
          ELSE ChunkDicts(chunk_document(
                   ChunkingService(STEP_CHUNK_SIZE, STEP_CHUNK_OVERLAP),
                   docs[1], e.property_id, e.ingestion_id)))
         \o ChunksOfGood(Tail(docs), e)

\* what one run of the handler on event e leaves behind
ChunkStepOutcome(e) ==
    LET docs == e.parsed_documents
        failed == {d \in 1..Len(docs) :
                      \E k \in 1..Len(docs[d].sections) :
                          docs[d].sections[k].content = PyNone}
        produced == ChunksOfGood(docs, e)
    IN  /\ events'.embed =
              IF produced # <<>>
              THEN {[ingestion_id |-> e.ingestion_id, property_id |-> e.property_id,
                     chunks |-> produced,
                     overwrite_existing |-> e.overwrite_existing]}
              ELSE {}
        /\ IF produced = <<>> /\ failed # {}
           THEN \E ev \in events'.error :
                   /\ events'.error = {ev}
                   /\ ev.stage = "chunking"
                   /\ ev.ingestion_id = e.ingestion_id
                   /\ Len(ev.errors) = Cardinality(failed)
                   /\ \A k \in 1..Len(ev.errors) : ev.errors[k].text = "Failed to chunk"
           ELSE events'.error = {}
        /\ e.ingestion_id \in DOMAIN jobs =>
              jobs'[e.ingestion_id].documents_chunked = Len(docs) - Cardinality(failed)

\* C21: one run of the DocumentChunk handler emits document-embed with the
\* chunks of all documents that chunked exactly when there is a chunk,
\* ingestion-error with stage "chunking" and one message per failed document
\* exactly when there is no chunk and a document failed, never both, and
\* sets documents_chunked to the number of documents less the failed ones.
C21_ChunkStepEmitsOne ==
    [][\A e \in events.chunk : ChunkStepOutcome(e)]_vars

\* a run in which one document failed and two others gave chunks
C21_Witness ==
    /\ events.chunk = {}
    /\ IngestionId \in DOMAIN jobs
    /\ jobs[IngestionId].documents_chunked = 2
    /\ Len(jobs[IngestionId].errors) = 1
    /\ events.error = {}
    /\ \E ev \in events.embed :
          /\ Len(ev.chunks) >= 3
          /\ ev.chunks[1].source_url # ev.chunks[Len(ev.chunks)].source_url

\* ------------------------------------------------------------------------
\* The raw sub-chunks of the three-tier split
\* ------------------------------------------------------------------------
\* a text without a whitespace character
IsToken(text) == text # <<>> /\ \A i \in 1..Len(text) : ~IsSpace(text[i])

\* C22: every raw sub-chunk of a split section is at most chunk_size long
\* unless it is one whitespace-free token longer than chunk_size, and a token
\* longer than chunk_size is the only token of its sub-chunk.
C22_RawChunkWithinSize ==
    Returned =>
        \A k \in SplitSections :
            LET chunks == RawChunks(k) IN
            \A j \in 1..Len(chunks) :
                LET words == SplitWords(chunks[j]) IN
                /\ Len(chunks[j]) > service.chunk_size => IsToken(chunks[j])
                /\ \A w \in 1..Len(words) :
                      Len(words[w]) > service.chunk_size => chunks[j] = words[w]

\* a sentence of short words and an over-long word: the short words share a
\* sub-chunk, the over-long word has one of its own
C22_Witness ==
    /\ Returned
    /\ \E k \in SplitSections :
          LET chunks == RawChunks(k) IN
          /\ Len(SplitParagraphs(Strip(document.sections[k].content))) = 1
          /\ \E i, j \in 1..Len(chunks) :
                /\ Len(SplitWords(chunks[i])) >= 2
                /\ Len(chunks[j]) > service.chunk_size
                /\ IsToken(chunks[j])

\* the tokens of the texts of a list, in order
TokensOf(texts) == Flatten([j \in 1..Len(texts) |-> SplitWords(texts[j])])

\* C23: the tokens of the raw sub-chunks of a split section, taken in order,
\* are the tokens of the trimmed section text: none dropped, none twice, none
\* out of place.
C23_TokensPreserved ==
    Returned =>
        \A k \in SplitSections :
            TokensOf(RawChunks(k)) = SplitWords(Strip(document.sections[k].content))

\* the piece left over by the word pass goes on as current_chunk of the
\* paragraph pass and is flushed with the words it holds
C23_Witness ==
    /\ Returned
    /\ \E k \in SplitSections :
          LET chunks == RawChunks(k)
              content == Strip(document.sections[k].content)
          IN  /\ Len(chunks) >= 2
              /\ Len(SplitWords(chunks[1])) >= 2
              /\ Len(SplitWords(chunks[Len(chunks)])) >= 2
              /\ Len(SplitSentences(content)) = 1
              /\ TokensOf(chunks) = SplitWords(content)

\* a paragraph that follows an over-long one is joined to no dropped piece
C23_ParagraphAfterLeftover ==
    /\ Returned
    /\ \E k \in SplitSections :
          LET chunks == RawChunks(k)
              content == Strip(document.sections[k].content)
          IN  /\ Len(SplitParagraphs(content)) >= 2
              /\ Len(chunks) >= 2
              /\ Len(chunks[1]) > service.chunk_size
              /\ TokensOf(chunks) = SplitWords(content)

\* ------------------------------------------------------------------------
\* POST /ingest taken one await at a time (start_ingestion_api_step.py)
\* ------------------------------------------------------------------------
IngestBodies ==
    [property_id : {PropertyId, None}, sources : SourceLists,
     overwrite_existing : BOOLEAN, notify_email : {None, <<"e">>}]

IngestInit ==
    /\ args = [chunk_size |-> STEP_CHUNK_SIZE, chunk_overlap |-> STEP_CHUNK_OVERLAP]
    /\ service = NoService
    /\ document = ParsedDocument(None, <<>>, None, None)
    /\ result = <<>>
    /\ pc = "pipeline"
    /\ calls = NoCalls
    /\ returned = {}
    /\ fetched = NoFetched
    /\ jobs = <<>>
    /\ events = NoEvents
    /\ table = <<>>
    /\ last_response = NoResponse
    /\ request = NoRequest
    /\ embedding = NoEmbedding
    /\ search = NoSearch

\* the request arrives; validation of the body and of the sources
IngestValidate ==
    /\ request.at = "idle"
    /\ \E body \in IngestBodies, ingestion_id \in IngestionIds :
          IF ~BodyValid(body) \/ ValidSources(body.sources) = <<>>
          THEN /\ request' = [at |-> "answered", ingestion_id |-> None, body |-> body]
               /\ last_response' = [status |-> 400, ingestion_id |-> None,
                                    documents_queued |-> 0]
          ELSE /\ request' = [at |-> "validated", ingestion_id |-> ingestion_id,
                              body |-> body]
               /\ UNCHANGED last_response
    /\ UNCHANGED <<jobs, events, table, embedding, search, pc>>
    /\ UNCHANGED chunkerVars

\* await context.state.set("ingestion_jobs", ingestion_id, {...})
IngestSetJob ==
    /\ request.at = "validated"
    /\ jobs' = jobs @@ (request.ingestion_id :>
                           NewJob(request.body, ValidSources(request.body.sources)))
    /\ request' = [request EXCEPT !.at = "stored"]
    /\ UNCHANGED <<events, table, last_response, embedding, search, pc>>
    /\ UNCHANGED chunkerVars

\* await context.emit({"topic": "document-discovery", ...})
IngestEmitDiscovery ==
    /\ request.at = "stored"
    /\ events' = Emit(
          [discovery |->
              {[ingestion_id |-> request.ingestion_id,
                property_id |-> request.body.property_id,
                sources |-> ValidSources(request.body.sources),
                overwrite_existing |-> request.body.overwrite_existing]}])
    /\ request' = [request EXCEPT !.at = "emitted"]
    /\ UNCHANGED <<jobs, table, last_response, embedding, search, pc>>
    /\ UNCHANGED chunkerVars

\* the notification, when asked for, and the 202 response
IngestRespond ==
    /\ request.at = "emitted"
    /\ events' = Emit(
          [notification |->
              IF request.body.notify_email # None
              THEN {Notification("ingestion_started", request.ingestion_id,
                                 request.body.property_id,
                                 <<request.body.notify_email>>)}
              ELSE {}])
    /\ last_response' = [status |-> 202, ingestion_id |-> request.ingestion_id,
                         documents_queued |->
                             Len(ValidSources(request.body.sources))]
    /\ request' = [request EXCEPT !.at = "answered"]
    /\ UNCHANGED <<jobs, table, embedding, search, pc>>
    /\ UNCHANGED chunkerVars

IngestNext ==
    \/ IngestValidate
    \/ IngestSetJob
    \/ IngestEmitDiscovery
    \/ IngestRespond

Ingest == IngestInit /\ [][IngestNext]_vars

\* number of sources that name a url or a file_path
WithTarget(sources) ==
    Cardinality({i \in 1..Len(sources) :
                    sources[i].url # <<>> \/ sources[i].file_path # <<>>})

\* the request is one the handler turns down
Refused(body) == Len(body.property_id) = 0 \/ WithTarget(body.sources) = 0

\* the job as POST /ingest first writes it
FreshJob(job) ==
    /\ job.status = "processing"
    /\ job.documents_discovered = 0
    /\ job.documents_parsed = 0
    /\ job.documents_chunked = 0
    /\ job.documents_embedded = 0
    /\ job.chunks_created = 0
    /\ job.errors = <<>>

C24_RefusedForSources ==
    /\ request.at = "answered"
    /\ Len(request.body.property_id) > 0
    /\ Len(request.body.sources) = 2
    /\ last_response.status = 400

\* the job is in the state before the event is out
C24_StoredBeforeEmitted ==
    /\ request.at = "stored"
    /\ request.ingestion_id \in DOMAIN jobs
    /\ events.discovery = {}

\* ------------------------------------------------------------------------
\* LanceDBService.search (lancedb_service.py)
\* ------------------------------------------------------------------------
MaxRows  == 4
MaxDist  == 2
MaxLimit == 2

OtherProperty == <<"p", "2">>

\* a row of the table as the search sees it: dist is the distance of its
\* vector to the query embedding, in whole units
SearchRow(id, property_id, is_critical, dist) ==
    [id |-> id, property_id |-> property_id, is_critical |-> is_critical,
     dist |-> dist]

\* the tables searched: rows of the property, after a row of another property
\* that lies nearest to the query
SearchTables ==
    {<<SearchRow(0, OtherProperty, TRUE, 0)>> \o
        [i \in 1..n |-> SearchRow(i, PropertyId, crit[i], dist[i])] :
     <<n, crit, dist>> \in
        UNION {{n} \X [1..n -> BOOLEAN] \X [1..n -> 0..MaxDist] : n \in 0..MaxRows}}

\* a row as to_list() returns it; distance is _distance in tenths of a unit
Candidate(row) ==
    [id |-> row.id, is_critical |-> row.is_critical, raw |-> 10 * row.dist,
     distance |-> 10 * row.dist]

\* list.sort(key=_distance) is stable: row goes behind the rows not farther
InsertByDistance(sorted, row) ==
    LET n == Cardinality({i \in 1..Len(sorted) : sorted[i].distance <= row.distance})
    IN  SubSeq(sorted, 1, n) \o <<row>> \o SubSeq(sorted, n + 1, Len(sorted))

RECURSIVE SortByDistance(_)
SortByDistance(rows) ==
    IF rows = <<>> THEN <<>>
    ELSE InsertByDistance(SortByDistance(ButLast(rows)), rows[Len(rows)])

\* table.search(query).where(filter).limit(k).to_list(): the k nearest rows
\* of the property, nearest first, rows equally far in the order of the table
Nearest(rows, property_id, k) ==
    LET matching == SelectSeq(rows, LAMBDA row : row.property_id = property_id)
        ordered  == SortByDistance([i \in 1..Len(matching) |-> Candidate(matching[i])])
    IN  SubSeq(ordered, 1, Min2(k, Len(ordered)))

\* variant of the boost that leaves the distance as it is
Unboosted(hit) == hit

\* result["_distance"] = result.get("_distance", 0) * 0.7 for a critical row
Boosted(hit) ==
    IF hit.is_critical
    THEN [hit EXCEPT !.distance = (7 * hit.distance) \div 10]
    ELSE hit

\* the re-ranking and the cut to limit
Rerank(results, limit, include_critical_boost) ==
    LET ranked == IF include_critical_boost /\ results # <<>>
                  THEN SortByDistance([i \in 1..Len(results) |-> Boosted(results[i])])
                  ELSE results
    IN  SubSeq(ranked, 1, Min2(limit, Len(ranked)))

SearchInit ==
    /\ args = [chunk_size |-> STEP_CHUNK_SIZE, chunk_overlap |-> STEP_CHUNK_OVERLAP]
    /\ service = NoService
    /\ document = ParsedDocument(None, <<>>, None, None)
    /\ result = <<>>
    /\ pc = "search"
    /\ calls = NoCalls
    /\ returned = {}
    /\ fetched = NoFetched
    /\ jobs = <<>>
    /\ events = NoEvents
    /\ table \in SearchTables
    /\ last_response = NoResponse
    /\ request = NoRequest
    /\ embedding = NoEmbedding
    /\ search = NoSearch

\* LanceDBService.search(query_embedding, property_id, limit=limit,
\* include_critical_boost=include_critical_boost)
Search ==
    /\ pc = "search"
    /\ \E limit \in 1..MaxLimit, include_critical_boost \in BOOLEAN :
          \E results \in {Nearest(table, PropertyId,
                                  IF include_critical_boost THEN limit * 2 ELSE limit)} :
              search' = [limit |-> limit,
                         include_critical_boost |-> include_critical_boost,
                         candidates |-> results,
                         results |-> Rerank(results, limit, include_critical_boost)]
    /\ UNCHANGED <<jobs, events, table, last_response, request, embedding, pc>>
    /\ UNCHANGED chunkerVars

SearchSpec == SearchInit /\ [][Search]_vars

\* the boosted distance of a candidate, in tenths of a unit
BoostedDistance(c) == IF c.is_critical THEN 7 * (c.raw \div 10) ELSE c.raw

\* place of the candidate with this id among the returned rows, 0 when cut
RankOf(id) ==
    LET at == {i \in 1..Len(search.results) : search.results[i].id = id}
    IN  IF at = {} THEN 0 ELSE CHOOSE i \in at : TRUE

\* the candidate c is returned, and before m when m is returned too
RankedBefore(c, m) ==
    RankOf(m.id) # 0 => (RankOf(c.id) # 0 /\ RankOf(c.id) < RankOf(m.id))

\* at most limit rows, in non-decreasing boosted distance, the nearest of
\* the up to 2 * limit candidates by boosted distance
BoostedSearchShape ==
    /\ Len(search.results) <= search.limit
    /\ Len(search.candidates) <= 2 * search.limit
    /\ Len(search.results) = Min2(search.limit, Len(search.candidates))
    /\ \A i \in 1..Len(search.results) :
          /\ \E c \in 1..Len(search.candidates) :
                /\ search.candidates[c].id = search.results[i].id
                /\ search.results[i].distance = BoostedDistance(search.candidates[c])
          /\ i > 1 => search.results[i - 1].distance <= search.results[i].distance
    /\ \A c \in 1..Len(search.candidates) :
          RankOf(search.candidates[c].id) = 0 =>
              \A i \in 1..Len(search.results) :
                  search.results[i].distance <= BoostedDistance(search.candidates[c])

\* C25 as stated: with include_critical_boost the search returns at most
\* limit rows in non-decreasing boosted distance (0.7 times the raw distance
\* for a critical row), the nearest of the up to 2 * limit candidates, and a
\* critical row is never ranked after a non-critical row whose raw distance
\* is equal or larger.
C25_CriticalNeverAfter ==
    (search.limit > 0 /\ search.include_critical_boost) =>
        /\ BoostedSearchShape
        /\ \A c, m \in 1..Len(search.candidates) :
              (/\ search.candidates[c].is_critical
               /\ ~search.candidates[m].is_critical
               /\ search.candidates[m].raw >= search.candidates[c].raw)
              => RankedBefore(search.candidates[c], search.candidates[m])

\* C25, amended: the same, for a critical row whose raw distance is above 0;
\* at raw distance 0 the boost changes nothing and rows equally far keep the
\* order in which the table returned them.
C25_CriticalNeverAfterWhenPositive ==
    (search.limit > 0 /\ search.include_critical_boost) =>
        /\ BoostedSearchShape
        /\ \A c, m \in 1..Len(search.candidates) :
              (/\ search.candidates[c].is_critical
               /\ ~search.candidates[m].is_critical
               /\ search.candidates[c].raw > 0
               /\ search.candidates[m].raw >= search.candidates[c].raw)
              => RankedBefore(search.candidates[c], search.candidates[m])
        /\ \A i, j \in 1..Len(search.candidates) :
              (/\ i < j
               /\ search.candidates[i].raw = 0
               /\ search.candidates[j].raw = 0)
              => RankedBefore(search.candidates[i], search.candidates[j])

\* a critical row that the table returned behind a non-critical row equally
\* far is returned before it, and a candidate is cut
C25_Witness ==
    /\ search.limit = 2
    /\ search.include_critical_boost
    /\ Len(search.candidates) = 4
    /\ \E c, m \in 1..4 :
          /\ m < c
          /\ search.candidates[c].is_critical
          /\ ~search.candidates[m].is_critical
          /\ search.candidates[c].raw = search.candidates[m].raw
          /\ search.candidates[c].raw > 0
          /\ RankOf(search.candidates[c].id) = 1
          /\ RankOf(search.candidates[m].id) = 0

\* ------------------------------------------------------------------------
\* The end of a job
\* ------------------------------------------------------------------------
Processing(ingestion_id) ==
    /\ ingestion_id \in DOMAIN jobs
    /\ jobs[ingestion_id].status = "processing"

Decided(ingestion_id) ==
    /\ ingestion_id \in DOMAIN jobs
    /\ jobs[ingestion_id].status \in {"completed", "failed"}

\* C26: with every emitted event delivered and every handler run to its end,
\* a job written by POST /ingest eventually leaves status "processing" and
\* becomes "completed" or "failed", whatever discovery, parsing, chunking,
\* embedding and storage do.
C26_JobLeavesProcessing ==
    \A ingestion_id \in IngestionIds :
        Processing(ingestion_id) ~> Decided(ingestion_id)

\* a job at rest in status "processing" with no error: its one document was
\* discovered, parsed and chunked into zero chunks
C26_StuckProcessing ==
    \E ingestion_id \in IngestionIds :
        /\ Processing(ingestion_id)
        /\ AtRest(ingestion_id)
        /\ events.complete = {}
        /\ jobs[ingestion_id].errors = <<>>
        /\ jobs[ingestion_id].documents_parsed = 1
        /\ jobs[ingestion_id].documents_chunked = 1
        /\ jobs[ingestion_id].chunks_created = 0

\* ------------------------------------------------------------------------
\* The errors list of a job
\* ------------------------------------------------------------------------
\* number of entries of the job's errors list that report this kind of error
Recorded(ingestion_id, text) ==
    Cardinality({k \in 1..Len(jobs[ingestion_id].errors) :
                    jobs[ingestion_id].errors[k].text = text})

\* C27: the errors list of a job holds one entry per stage error and none
\* twice: at most one entry per source that discovery did not find, one per
\* discovered document that was not parsed, and one for the single embedding
\* or storage failure of the job, also when the stage wrote the error to the
\* job and sent it on with ingestion-error.
C27_ErrorsRecordedOnce ==
    \A ingestion_id \in IngestionIds :
        ingestion_id \in DOMAIN jobs =>
            LET job == jobs[ingestion_id] IN
            /\ Recorded(ingestion_id, "Failed to discover source")
                  <= job.total_documents - job.documents_discovered
            /\ Recorded(ingestion_id, "Failed to parse")
                  <= job.documents_discovered - job.documents_parsed
            /\ Recorded(ingestion_id, "Failed to generate embeddings") <= 1
            /\ Recorded(ingestion_id, "Failed to store documents") <= 1
            /\ \A i, j \in 1..Len(job.errors) :
                  (i < j /\ job.errors[i].text \in
                      {"Failed to discover source", "Failed to generate embeddings",
                       "Failed to store documents"})
                  => job.errors[i] # job.errors[j]

\* the one error of a job with one source, recorded twice
C27_RecordedTwice ==
    \E ingestion_id \in IngestionIds :
        /\ ingestion_id \in DOMAIN jobs
        /\ jobs[ingestion_id].total_documents = 1
        /\ AtRest(ingestion_id)
        /\ Len(jobs[ingestion_id].errors) = 2
        /\ jobs[ingestion_id].errors[1] = jobs[ingestion_id].errors[2]
        /\ jobs[ingestion_id].errors[1].text = "Failed to generate embeddings"

\* ------------------------------------------------------------------------
\* The vector store across a failed DocumentEmbed
\* ------------------------------------------------------------------------
\* the rows stored for the property and one of the sources
RowsOf(rows, property_id, sources) ==
    SelectSeq(rows, LAMBDA row : \E source \in sources :
                                     RowMatches(row, property_id, source))

\* C28: when embed_texts or add_documents raises in a DocumentEmbed handler
\* run with overwrite_existing = true, the rows stored for the property and
\* the sources of its chunks are the same after the handler as before.
C28_FailedEmbedKeepsRows ==
    [][\A e \in events.embed :
          \A deleted \in SUBSET ChunkSources(e.chunks) :
              \A outcome \in {"embed_raises", "store_raises"} :
                  (HandleEmbed(e, deleted, outcome) /\ e.overwrite_existing)
                  => RowsOf(table', e.property_id, ChunkSources(e.chunks))
                         = RowsOf(table, e.property_id, ChunkSources(e.chunks))]_vars

\* a failed job whose source had rows from an earlier ingestion and has none
\* left
C28_RowsLost ==
    \E ingestion_id \in IngestionIds :
        /\ Failed(ingestion_id)
        /\ HasStageError(ingestion_id, "Failed to generate embeddings")
        /\ EarlierId \in DOMAIN jobs
        /\ jobs[EarlierId].chunks_created > 0
        /\ table = <<>>

\* ------------------------------------------------------------------------
\* The status of a job over time
\* ------------------------------------------------------------------------
\* add_documents returned for the chunks of e: its documents are in rows
Stored(rows, e) ==
    \A i \in 1..Len(e.chunks) :
        \E r \in 1..Len(rows) :
            /\ rows[r].id = e.chunks[i].id
            /\ rows[r].ingestion_id = e.ingestion_id

\* C29: a job starts in status "processing"; once "completed" it stays
\* "completed", once "failed" it stays "failed"; and "completed" is written
\* only by a DocumentEmbed handler whose add_documents call returned.
C29_StatusTerminal ==
    [][/\ \A ingestion_id \in DOMAIN jobs' \ DOMAIN jobs :
             jobs'[ingestion_id].status = "processing"
       /\ \A ingestion_id \in DOMAIN jobs :
             /\ jobs[ingestion_id].status = "completed"
                   => jobs'[ingestion_id].status = "completed"
             /\ jobs[ingestion_id].status = "failed"
                   => jobs'[ingestion_id].status = "failed"
             /\ (/\ jobs[ingestion_id].status # "completed"
                 /\ jobs'[ingestion_id].status = "completed")
                   => \E e \in events.embed \ events'.embed :
                         /\ e.ingestion_id = ingestion_id
                         /\ Stored(table', e)]_vars

\* a job that failed in the embed step and was written "failed" a second time
\* by the IngestionError handler
C29_Witness ==
    \E ingestion_id \in IngestionIds :
        /\ Failed(ingestion_id)
        /\ jobs[ingestion_id].failed_stage = "storage"
        /\ Len(jobs[ingestion_id].errors) >= 2
        /\ AtRest(ingestion_id)

\* a job that completed, after the handlers of ingestion-complete and
\* send-notification ran
C29_CompletedAtRest ==
    \E ingestion_id \in IngestionIds :
        /\ ingestion_id \in DOMAIN jobs
        /\ jobs[ingestion_id].status = "completed"
        /\ AtRest(ingestion_id)
        /\ events.complete = {}
        /\ events.notification = {}
        /\ \E r \in 1..Len(table) : table[r].ingestion_id = ingestion_id

\* ------------------------------------------------------------------------
\* Two DocumentEmbed handlers at a time, each taken one call at a time
\* (document_embed_step.py); Motia runs every handler invocation on its own
\* ------------------------------------------------------------------------
EmbedHandlers == {1, 2}

ReingestIds == <<IngestionId, <<"i", "2">>>>

SectionsTwo ==
    <<ParsedSection(<<"A", "b">>, <<"c", "d">>, 1, FALSE),
      ParsedSection(<<"Z", "t">>, <<"e", "f">>, 1, TRUE)>>

\* the document-embed event of a re-ingestion of the one source
ReingestEvent(ingestion_id, sections) ==
    [ingestion_id |-> ingestion_id, property_id |-> PropertyId,
     chunks |-> AllChunks(ChunkingService(STEP_CHUNK_SIZE, STEP_CHUNK_OVERLAP),
                          <<ParseDocument(DiscoverSource(SourceUrl), sections)>>,
                          PropertyId, ingestion_id),
     overwrite_existing |-> TRUE]

ReingestInit ==
    /\ args = [chunk_size |-> STEP_CHUNK_SIZE, chunk_overlap |-> STEP_CHUNK_OVERLAP]
    /\ service = NoService
    /\ document = ParsedDocument(None, <<>>, None, None)
    /\ result = <<>>
    /\ pc = "pipeline"
    /\ calls = NoCalls
    /\ returned = {}
    /\ fetched = NoFetched
    /\ jobs = [i \in {ReingestIds[h] : h \in EmbedHandlers} |-> StepJob]
    /\ events = NoEvents
    /\ \E prior \in {<<>>, <<SourceUrl>>} : table = EarlierTable(EarlierChunks(prior))
    /\ last_response = NoResponse
    /\ request = NoRequest
    /\ \E shape \in [EmbedHandlers -> {SectionsText, SectionsTwo}] :
          embedding = [h \in EmbedHandlers |->
                          [at |-> "start",
                           event |-> ReingestEvent(ReingestIds[h], shape[h]),
                           deleted |-> {}]]
    /\ search = NoSearch

\* the loop of delete_by_property_and_source calls; deleted are the sources
\* whose call returned before one raised, all of them when none raised
EmbedDelete(h) ==
    /\ embedding[h].at = "start"
    /\ \E deleted \in SUBSET ChunkSources(embedding[h].event.chunks) :
          /\ table' = DeleteSources(table, embedding[h].event.property_id, deleted)
          /\ embedding' = [embedding EXCEPT ![h].at = "deleted",
                                            ![h].deleted = deleted]
    /\ UNCHANGED <<jobs, events, last_response, request, search, pc>>
    /\ UNCHANGED chunkerVars

\* the failure path of the handler: _update_job_error and ingestion-error
EmbedFails(h, stage, text) ==
    /\ jobs' = UpdateJobError(embedding[h].event.ingestion_id,
                              <<ErrorMsg(text, None)>>)
    /\ events' = Emit([error |->
          {ErrorEvent(embedding[h].event.ingestion_id,
                      embedding[h].event.property_id, stage,
                      <<ErrorMsg(text, None)>>)}])
    /\ embedding' = [embedding EXCEPT ![h].at = "done"]

\* embeddings_service.embed_texts(texts)
EmbedTexts(h) ==
    /\ embedding[h].at = "deleted"
    /\ \/ /\ embedding' = [embedding EXCEPT ![h].at = "embedded"]
          /\ UNCHANGED <<jobs, events>>
       \/ EmbedFails(h, "embedding", "Failed to generate embeddings")
    /\ UNCHANGED <<table, last_response, request, search, pc>>
    /\ UNCHANGED chunkerVars

\* lancedb_service.add_documents(documents)
EmbedAdd(h) ==
    /\ embedding[h].at = "embedded"
    /\ \/ /\ table' = table \o EmbedDocuments(embedding[h].event)
          /\ embedding' = [embedding EXCEPT ![h].at = "added"]
          /\ UNCHANGED <<jobs, events>>
       \/ /\ EmbedFails(h, "storage", "Failed to store documents")
          /\ UNCHANGED table
    /\ UNCHANGED <<last_response, request, search, pc>>
    /\ UNCHANGED chunkerVars

\* the job update and the two emits after add_documents returned
EmbedFinish(h) ==
    LET e == embedding[h].event
        job == GetJob(e.ingestion_id)
    IN
    /\ embedding[h].at = "added"
    /\ jobs' = UpdateJob(e.ingestion_id,
          [job EXCEPT !.documents_embedded = Len(e.chunks),
                      !.chunks_created = Len(e.chunks),
                      !.status = "completed"])
    /\ events' = Emit(
          [complete |->
              {[ingestion_id |-> e.ingestion_id, property_id |-> e.property_id,
                chunks_created |-> Len(e.chunks)]},
           notification |->
              {Notification("ingestion_complete", e.ingestion_id, e.property_id,
                  IF job.notify_email # None THEN <<job.notify_email>> ELSE None)}])
    /\ embedding' = [embedding EXCEPT ![h].at = "done"]
    /\ UNCHANGED <<table, last_response, request, search, pc>>
    /\ UNCHANGED chunkerVars

ReingestNext ==
    \E h \in EmbedHandlers :
        \/ EmbedDelete(h)
        \/ EmbedTexts(h)
        \/ EmbedAdd(h)
        \/ EmbedFinish(h)

Reingest == ReingestInit /\ [][ReingestNext]_vars

\* the ingestion_ids of the rows stored for the property and the source
StoredIds ==
    {table[r].ingestion_id :
        r \in {q \in 1..Len(table) :
                  RowMatches(table[q], PropertyId, <<"url", SourceUrl.url>>)}}

\* C30: once two DocumentEmbed handlers that re-ingest the same source of
\* the same property with overwrite_existing = true have both finished, the
\* rows stored for that property and source are of one ingestion_id only;
\* stated for the runs in which no delete call raised.
C30_NoMergeWhenBothDone ==
    (\A h \in EmbedHandlers :
        /\ embedding[h].at = "done"
        /\ embedding[h].deleted = ChunkSources(embedding[h].event.chunks))
        => Cardinality(StoredIds \cap {ReingestIds[h] : h \in EmbedHandlers}) <= 1

\* both handlers deleted, then both added: the rows of both ingestions stay
C30_MergedByInterleaving ==
    /\ \A h \in EmbedHandlers :
          /\ embedding[h].at = "done"
          /\ embedding[h].deleted = ChunkSources(embedding[h].event.chunks)
          /\ jobs[embedding[h].event.ingestion_id].status = "completed"
    /\ StoredIds = {ReingestIds[h] : h \in EmbedHandlers}

====
